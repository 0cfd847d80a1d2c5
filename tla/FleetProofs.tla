----------------------------- MODULE FleetProofs -----------------------------
(***************************************************************************)
(* A school's default vehicle is one of its live vehicles, and a school    *)
(* that has vehicles has one, for every number of handlers, schools and    *)
(* vehicles.  The argument is about row locks: whoever is about to retire, *)
(* add or choose a vehicle holds the rows its decision was read from.      *)
(***************************************************************************)
EXTENDS DrivingSchool, FiniteSetTheorems, TLAPS

Special == {"createVehicle", "deleteVehicle", "setDefaultVehicle", "deleteSchool"}

(* ------------------------------------------------ the inductive invariant *)
Handler(h) ==
  \/ h = None
  \/ h = [req |-> h.req, step |-> h.step, saw |-> h.saw] /\ h.req \in Requests

Typed ==
  /\ schools \in [Schools -> SchoolRow]
  /\ vehicles \in [Vehicles -> VehicleRow]
  /\ pending \subseteq Requests
  /\ locked = [x \in Rows |-> locked[x]]
  /\ handlers = [c \in Clients |-> handlers[c]]
  /\ \A c \in Clients : Handler(handlers[c])

\* A vehicle without a row has no school, a live one has a school with a row.
Placed ==
  \A v \in Vehicles :
    /\ vehicles[v].state = "free" => vehicles[v].school = None
    /\ Live(vehicles[v]) => /\ vehicles[v].school \in Schools
                            /\ schools[vehicles[v].school].state # "free"

\* Who adds a vehicle holds the school, and what was counted still holds.
Adding(c) ==
  ~Idle(c) /\ Req(c).op = "createVehicle" =>
    /\ schools[Req(c).school].state # "free"
    /\ handlers[c].step \in {"count", "write"} => locked[Req(c).school] = c
    /\ handlers[c].step = "write" /\ ~Saw(c) => FleetOf(Req(c).school) # {}

\* Who retires a vehicle holds it and, from the check on, its school.
Retiring(c) ==
  LET v == Req(c).vehicle
      s == vehicles[v].school
  IN ~Idle(c) /\ Req(c).op = "deleteVehicle" =>
       /\ handlers[c].step \in {"school", "check", "count", "write"} => locked[v] = c
       /\ handlers[c].step \in {"check", "count", "write"} => s \in Schools /\ locked[s] = c
       /\ handlers[c].step \in {"count", "write"} =>
            /\ Live(vehicles[v])
            /\ Saw(c) => FleetOf(s) = {v}
            /\ ~Saw(c) => schools[s].vehicle # v

\* Who chooses a vehicle holds it, and has found it live in the school.
Choosing(c) ==
  LET v == Req(c).vehicle
  IN ~Idle(c) /\ Req(c).op = "setDefaultVehicle" =>
       /\ handlers[c].step \in {"check", "write"} => locked[v] = c
       /\ handlers[c].step = "write" => Live(vehicles[v]) /\ vehicles[v].school = Req(c).school

Closing(c) ==
  At(c, "deleteSchool", "write") => locked[Req(c).school] = c

Own(c) == Adding(c) /\ Retiring(c) /\ Choosing(c) /\ Closing(c)

FleetInv ==
  /\ Typed /\ Placed
  /\ DefaultVehicleIsLive /\ FleetHasDefault
  /\ \A c \in Clients : Own(c)

(* --------------------------------------------------------------- requests *)
LEMMA RequestShapes ==
  ASSUME NEW r \in Requests
  PROVE  /\ r.op = "createVehicle" =>
              r.school \in Schools /\ r.vehicle \in Vehicles /\ r.types \in SUBSET Types
         /\ r.op = "updateVehicle" => r.vehicle \in Vehicles /\ r.types \in Opt(SUBSET Types)
         /\ r.op = "vehicleStatus" =>
              r.vehicle \in Vehicles /\ r.available \in BOOLEAN /\ r.until \in Null(Nat)
         /\ r.op = "deleteVehicle" => r.vehicle \in Vehicles
         /\ r.op \in {"createSchool", "deleteSchool"} =>
              r.school \in Schools /\ r.actor \in Managers
         /\ r.op = "updateSchool" =>
              r.school \in Schools /\ r.kinds \in Opt(SUBSET {"PRACTICE", "THEORY"})
         /\ r.op = "setDefaultVehicle" => r.school \in Schools /\ r.vehicle \in Vehicles
<1>1. CASE r \in FleetRequests
  BY <1>1 DEF FleetRequests
<1>2. CASE r \in SchoolRequests
  BY <1>2 DEF SchoolRequests
<1>3. CASE r \in CourseRequests \cup SeatRequests
  BY <1>3 DEF CourseRequests, SeatRequests
<1>4. CASE r \in BookingRequests
  BY <1>4 DEF BookingRequests
<1>5. CASE r \in PeopleRequests \cup PaymentRequests
  BY <1>5 DEF PeopleRequests, PaymentRequests
<1>6. QED
  BY <1>1, <1>2, <1>3, <1>4, <1>5 DEF Requests

(* ------------------------------------------------------------ what steps do *)
\* A step of c leaves the other handlers alone, and takes no lock from them.
Steady(c) ==
  /\ pending' \subseteq pending
  /\ handlers' = [d \in Clients |-> handlers'[d]]
  /\ locked' = [x \in Rows |-> locked'[x]]
  /\ \A d \in Clients : d # c => handlers'[d] = handlers[d]
  /\ \A d \in Clients, x \in Rows : d # c /\ locked[x] = d => locked'[x] = d

\* Which vehicles a school has, and which is its default, does not change.
Gentle ==
  /\ vehicles' \in [Vehicles -> VehicleRow]
  /\ schools' \in [Schools -> SchoolRow]
  /\ \A v \in Vehicles : /\ vehicles'[v].state = vehicles[v].state
                         /\ vehicles'[v].school = vehicles[v].school
  /\ \A s \in Schools : /\ schools'[s].state = schools[s].state
                        /\ schools'[s].vehicle = schools[s].vehicle

LEMMA GentleFleets ==
  ASSUME Gentle
  PROVE  \A s : FleetOf(s)' = FleetOf(s)
BY DEF Gentle, FleetOf, Live

LEMMA OwnRequest ==
  ASSUME FleetInv, NEW c \in Clients, ~Idle(c)
  PROVE  Req(c) \in Requests
BY DEF FleetInv, Typed, Handler, Idle, Req

\* What d has locked stays as it is: a vehicle, the fleet of a school and its
\* default vehicle.
Kept(d) ==
  /\ \A s \in Schools : schools[s].state # "free" =>
       /\ schools'[s].state # "free"
       /\ locked[s] = d => FleetOf(s)' = FleetOf(s) /\ schools'[s].vehicle = schools[s].vehicle
  /\ \A v \in Vehicles : locked[v] = d /\ vehicles[v].school \in Schools =>
       vehicles'[v].state = vehicles[v].state /\ vehicles'[v].school = vehicles[v].school

LEMMA GentleKeeps == ASSUME Gentle, NEW d \in Clients PROVE Kept(d)
BY GentleFleets DEF Gentle, Kept

\* That is all another handler relies on.
LEMMA OthersRely ==
  ASSUME FleetInv, NEW c \in Clients, Steady(c), NEW d \in Clients, d # c, Kept(d)
  PROVE  Own(d)'
<1>1. /\ handlers'[d] = handlers[d] /\ Own(d)
      /\ \A x \in Rows : locked[x] = d => locked'[x] = d
      /\ Handler(handlers[d])
  BY DEF FleetInv, Typed, Steady
<1>2. Schools \subseteq Rows /\ Vehicles \subseteq Rows
  BY DEF Rows
<1>3. Adding(d)'
  <2>1. CASE Idle(d) \/ Req(d).op # "createVehicle"
    BY <1>1, <2>1 DEF Adding, Idle, Req
  <2>2. CASE ~Idle(d) /\ Req(d).op = "createVehicle"
    <3>1. Req(d).school \in Schools
      BY <2>2, OwnRequest, RequestShapes
    <3>2. Adding(d)
      BY <1>1 DEF Own
    <3>3. QED
      BY <1>1, <1>2, <2>2, <3>1, <3>2 DEF Adding, Kept, Idle, Req, Saw
  <2>3. QED
    BY <2>1, <2>2
<1>4. Retiring(d)'
  <2>1. CASE Idle(d) \/ Req(d).op # "deleteVehicle"
    BY <1>1, <2>1 DEF Retiring, Idle, Req
  <2>2. CASE ~Idle(d) /\ Req(d).op = "deleteVehicle"
    <3> DEFINE v == Req(d).vehicle
               s == vehicles[v].school
    <3>1. v \in Vehicles /\ Retiring(d) /\ Req(d)' = Req(d)
      BY <1>1, <2>2, OwnRequest, RequestShapes DEF Own, Req
    <3>2. CASE handlers[d].step \notin {"check", "count", "write"}
      BY <1>1, <1>2, <2>2, <3>1, <3>2 DEF Retiring, Idle, Req
    <3>3. CASE handlers[d].step \in {"check", "count", "write"}
      <4>1. s \in Schools /\ locked[v] = d /\ locked[s] = d
        BY <2>2, <3>1, <3>3 DEF Retiring
      <4>2. vehicles'[v].state = vehicles[v].state /\ vehicles'[v].school = s
        BY <3>1, <4>1 DEF Kept
      <4>3. locked'[v] = d /\ locked'[s] = d
        BY <1>1, <1>2, <3>1, <4>1
      <4>4. CASE handlers[d].step = "check"
        BY <1>1, <2>2, <3>1, <4>1, <4>2, <4>3, <4>4 DEF Retiring, Idle
      <4>5. CASE handlers[d].step \in {"count", "write"}
        <5>1. /\ Live(vehicles[v])
              /\ Saw(d) => FleetOf(s) = {v}
              /\ ~Saw(d) => schools[s].vehicle # v
          BY <2>2, <3>1, <4>5 DEF Retiring
        <5>2. schools[s].state # "free"
          BY <3>1, <5>1 DEF FleetInv, Placed
        <5>3. PICK t \in Schools : /\ t = s /\ FleetOf(t)' = FleetOf(t)
                                   /\ schools'[t].vehicle = schools[t].vehicle
          BY <4>1, <5>2 DEF Kept
        <5>4. Saw(d)' = Saw(d)
          BY <1>1 DEF Saw
        <5>5. Live(vehicles[v])'
          BY <4>2, <5>1, <3>1 DEF Live
        <5>6. QED
          BY <1>1, <2>2, <3>1, <4>1, <4>2, <4>3, <5>1, <5>3, <5>4, <5>5 DEF Retiring, Idle, Live
      <4>6. QED
        BY <3>3, <4>4, <4>5
    <3>4. QED
      BY <3>2, <3>3
  <2>3. QED
    BY <2>1, <2>2
<1>5. Choosing(d)'
  <2>1. CASE Idle(d) \/ Req(d).op # "setDefaultVehicle"
    BY <1>1, <2>1 DEF Choosing, Idle, Req
  <2>2. CASE ~Idle(d) /\ Req(d).op = "setDefaultVehicle"
    <3>1. Req(d).vehicle \in Vehicles /\ Req(d).school \in Schools
      BY <2>2, OwnRequest, RequestShapes
    <3>2. Choosing(d)
      BY <1>1 DEF Own
    <3>3. QED
      BY <1>1, <1>2, <2>2, <3>1, <3>2 DEF Choosing, Kept, Idle, Req, Live
  <2>3. QED
    BY <2>1, <2>2
<1>6. Closing(d)'
  <2>1. CASE ~At(d, "deleteSchool", "write")
    BY <1>1, <2>1 DEF Closing, At, Idle, Req
  <2>2. CASE At(d, "deleteSchool", "write")
    <3>1. Req(d).school \in Schools
      BY <2>2, OwnRequest, RequestShapes DEF At, Req
    <3>2. QED
      BY <1>1, <1>2, <2>2, <3>1 DEF Own, Closing, At, Idle, Req
  <2>3. QED
    BY <2>1, <2>2
<1>7. QED
  BY <1>3, <1>4, <1>5, <1>6 DEF Own

LEMMA Frame ==
  ASSUME FleetInv, NEW c \in Clients, Steady(c), Gentle,
         Handler(handlers'[c]), Own(c)'
  PROVE  FleetInv'
<1>1. Typed'
  BY DEF FleetInv, Typed, Steady, Gentle
<1>2. Placed'
  BY DEF FleetInv, Typed, Placed, Gentle, Live
<1>3. DefaultVehicleIsLive' /\ FleetHasDefault'
  BY GentleFleets DEF FleetInv, DefaultVehicleIsLive, FleetHasDefault, Gentle
<1>4. \A d \in Clients : Own(d)'
  BY OthersRely, GentleKeeps
<1>5. QED
  BY <1>1, <1>2, <1>3, <1>4 DEF FleetInv

\* A step that leaves its handler idle or busy with something else than the
\* operations the invariant speaks about.
Calm(c) ==
  /\ Steady(c) /\ Gentle
  /\ handlers'[c] = None \/ (Handler(handlers'[c]) /\ handlers'[c].req.op \notin Special)

LEMMA CalmKeeps ==
  ASSUME FleetInv, NEW c \in Clients, Calm(c)
  PROVE  FleetInv'
<1>1. Idle(c)' \/ Req(c)'.op \notin Special
  BY DEF Calm, Idle, Req
<1>2. Own(c)'
  BY <1>1 DEF Own, Adding, Retiring, Choosing, Closing, At, Special, Req, Idle
<1>3. QED
  BY <1>2, Frame DEF Calm, Handler

(* ---------------------------------------------------------- shapes of steps *)
\* The step changes neither vehicles nor schools.
Same == UNCHANGED <<vehicles, schools>>

LEMMA SameIsGentle == FleetInv /\ Same => Gentle
BY DEF FleetInv, Typed, Same, Gentle

LEMMA Received ==
  ASSUME FleetInv, NEW c \in Clients, NEW r \in pending, NEW step, NEW saw,
         Receive(c, r, step, saw)
  PROVE  /\ Steady(c) /\ Gentle /\ r \in Requests
         /\ handlers'[c] = [req |-> r, step |-> step, saw |-> saw]
         /\ Handler(handlers'[c])
<1>1. r \in Requests /\ Same
  BY DEF FleetInv, Typed, Receive, Same, tables, fleet
<1>2. handlers'[c] = [req |-> r, step |-> step, saw |-> saw]
  BY DEF FleetInv, Typed, Receive
<1>3. Steady(c)
  BY DEF FleetInv, Typed, Receive, Steady
<1>4. QED
  BY <1>1, <1>2, <1>3, SameIsGentle DEF Handler

\* A step that goes on with the same request.
LEMMA WentOn ==
  ASSUME FleetInv, NEW c \in Clients, NEW step, NEW saw, ~Idle(c), Goto(c, step, saw)
  PROVE  /\ handlers' = [d \in Clients |-> handlers'[d]] /\ pending' = pending
         /\ \A d \in Clients : d # c => handlers'[d] = handlers[d]
         /\ handlers'[c] = [req |-> Req(c), step |-> step, saw |-> saw]
         /\ Handler(handlers'[c]) /\ Req(c) \in Requests
<1>1. handlers[c] = [req |-> Req(c), step |-> handlers[c].step, saw |-> handlers[c].saw]
      /\ Req(c) \in Requests
  BY DEF FleetInv, Typed, Handler, Idle, Req
<1>2. /\ handlers' = [handlers EXCEPT ![c] = [req |-> Req(c), step |-> step, saw |-> saw]]
      /\ pending' = pending
  BY DEF Goto, Req
<1>3. handlers'[c] = [req |-> Req(c), step |-> step, saw |-> saw]
  BY <1>2 DEF FleetInv, Typed
<1>4. Handler(handlers'[c])
  BY <1>1, <1>3 DEF Handler
<1>5. QED
  BY <1>1, <1>2, <1>3, <1>4 DEF FleetInv, Typed

LEMMA Looked ==
  ASSUME FleetInv, NEW c \in Clients, NEW step, NEW saw, ~Idle(c), Look(c, step, saw)
  PROVE  Steady(c) /\ Gentle /\ locked' = locked
<1>1. Goto(c, step, saw) /\ locked' = locked /\ Same
  BY DEF Look, Same, tables, fleet
<1>2. Steady(c)
  BY <1>1, WentOn DEF FleetInv, Typed, Steady
<1>3. QED
  BY <1>1, <1>2, SameIsGentle

LEMMA Took ==
  ASSUME FleetInv, NEW c \in Clients, NEW x, NEW step, NEW saw, ~Idle(c),
         Take(c, x, step, saw)
  PROVE  Steady(c) /\ Gentle /\ (x \in Rows => locked'[x] = c)
<1>1. /\ Goto(c, step, saw) /\ Same /\ Free(c, {x})
      /\ locked' = [locked EXCEPT ![x] = c]
  BY DEF Take, Same, tables, fleet
<1>2. \A d \in Clients, y \in Rows : d # c /\ locked[y] = d => locked'[y] = d
  BY <1>1, OfficeAssumption DEF Free, FleetInv, Typed
<1>3. locked' = [y \in Rows |-> locked'[y]] /\ (x \in Rows => locked'[x] = c)
  BY <1>1 DEF FleetInv, Typed
<1>4. Steady(c)
  BY <1>1, <1>2, <1>3, WentOn DEF Steady
<1>5. QED
  BY <1>1, <1>3, <1>4, SameIsGentle

LEMMA Ended ==
  ASSUME FleetInv, NEW c \in Clients, Finish(c)
  PROVE  /\ Steady(c) /\ handlers'[c] = None
BY OfficeAssumption DEF FleetInv, Typed, Finish, Steady

(* ----------------------------------------- the steps the invariant is not about *)
LEMMA CalmReceive ==
  ASSUME FleetInv, NEW c \in Clients, NEW r \in pending, NEW step, NEW saw,
         Receive(c, r, step, saw), r.op \notin Special
  PROVE  Calm(c)
<1>1. /\ Steady(c) /\ Gentle /\ Handler(handlers'[c])
      /\ handlers'[c] = [req |-> r, step |-> step, saw |-> saw]
  BY Received
<1>2. handlers'[c].req = r
  BY <1>1
<1>3. QED
  BY <1>1, <1>2 DEF Calm

LEMMA CalmLook ==
  ASSUME FleetInv, NEW c \in Clients, NEW step, NEW saw, ~Idle(c), Look(c, step, saw),
         Req(c).op \notin Special
  PROVE  Calm(c)
<1>1. Goto(c, step, saw)
  BY DEF Look
<1>2. /\ Handler(handlers'[c])
      /\ handlers'[c] = [req |-> Req(c), step |-> step, saw |-> saw]
  BY <1>1, WentOn
<1>3. handlers'[c].req = Req(c)
  BY <1>2
<1>4. Steady(c) /\ Gentle
  BY Looked
<1>5. QED
  BY <1>2, <1>3, <1>4 DEF Calm

LEMMA CalmTake ==
  ASSUME FleetInv, NEW c \in Clients, NEW x, NEW step, NEW saw, ~Idle(c),
         Take(c, x, step, saw), Req(c).op \notin Special
  PROVE  Calm(c)
<1>1. Goto(c, step, saw)
  BY DEF Take
<1>2. /\ Handler(handlers'[c])
      /\ handlers'[c] = [req |-> Req(c), step |-> step, saw |-> saw]
  BY <1>1, WentOn
<1>3. handlers'[c].req = Req(c)
  BY <1>2
<1>4. Steady(c) /\ Gentle
  BY Took
<1>5. QED
  BY <1>2, <1>3, <1>4 DEF Calm

LEMMA CalmFinish ==
  ASSUME FleetInv, NEW c \in Clients, Finish(c), Gentle
  PROVE  Calm(c)
BY Ended DEF Calm

LEMMA CalmEnd ==
  ASSUME FleetInv, NEW c \in Clients, Finish(c), Same
  PROVE  Calm(c)
BY CalmFinish, SameIsGentle

LEMMA PeopleSteps ==
  ASSUME FleetInv, NEW c \in Clients, PeopleStep(c)
  PROVE  Calm(c)
<1> USE DEF Special
<1>1. CASE QualifyBegin(c)
  BY <1>1, CalmReceive DEF QualifyBegin
<1>2. CASE QualifyLock(c)
  BY <1>2, CalmTake DEF QualifyLock, At, Req
<1>3. CASE QualifyCheck(c)
  BY <1>3, CalmLook DEF QualifyCheck, At, Req
<1>4. CASE QualifyWrite(c)
  BY <1>4, CalmEnd DEF QualifyWrite, Same, fleet
<1>5. CASE MoveInstructorBegin(c)
  BY <1>5, CalmReceive DEF MoveInstructorBegin
<1>6. CASE MoveInstructorObligations(c)
  BY <1>6, CalmLook DEF MoveInstructorObligations, At, Req
<1>7. CASE MoveInstructorLock(c)
  BY <1>7, CalmTake DEF MoveInstructorLock, At, Req
<1>8. CASE MoveInstructorCheck(c)
  BY <1>8, CalmLook DEF MoveInstructorCheck, At, Req
<1>9. CASE MoveInstructorWrite(c)
  BY <1>9, CalmEnd DEF MoveInstructorWrite, Same, fleet
<1>10. CASE MoveStudentBegin(c)
  BY <1>10, CalmReceive DEF MoveStudentBegin
<1>11. CASE MoveStudentLock(c) \/ MoveStudentLockProfile(c)
  BY <1>11, CalmTake DEF MoveStudentLock, MoveStudentLockProfile, At, Req
<1>12. CASE MoveStudentCheck(c)
  BY <1>12, CalmLook DEF MoveStudentCheck, At, Req
<1>13. CASE MoveStudentWrite(c)
  BY <1>13, CalmEnd DEF MoveStudentWrite, Same, fleet
<1>14. CASE ArchiveBegin(c)
  BY <1>14, CalmReceive DEF ArchiveBegin
<1>15. CASE ArchiveLock(c)
  BY <1>15, CalmTake DEF ArchiveLock, At, Req
<1>16. CASE ArchiveCheck(c)
  BY <1>16, CalmLook DEF ArchiveCheck, At, Req
<1>17. CASE ArchiveWrite(c)
  BY <1>17, CalmEnd DEF ArchiveWrite, Same, fleet
<1>18. CASE PaymentBegin(c)
  BY <1>18, CalmReceive DEF PaymentBegin, PaymentOps
<1>19. CASE PaymentLock(c)
  BY <1>19, CalmTake DEF PaymentLock, PaymentOps, At, Req
<1>20. CASE PaymentResolve(c)
  BY <1>20, CalmLook DEF PaymentResolve, PaymentOps, At, Req
<1>21. CASE PaymentWrite(c)
  BY <1>21, CalmEnd DEF PaymentWrite, Same, fleet
<1>22. QED
  BY <1>1, <1>2, <1>3, <1>4, <1>5, <1>6, <1>7, <1>8, <1>9, <1>10, <1>11, <1>12, <1>13,
     <1>14, <1>15, <1>16, <1>17, <1>18, <1>19, <1>20, <1>21 DEF PeopleStep

LEMMA CourseSteps ==
  ASSUME FleetInv, NEW c \in Clients, CourseStep(c)
  PROVE  Calm(c)
<1> USE DEF Special
<1>1. CASE CreateCourseBegin(c)
  BY <1>1, CalmReceive DEF CreateCourseBegin
<1>2. CASE CreateCourseWrite(c)
  BY <1>2, CalmEnd DEF CreateCourseWrite, Same, fleet
<1>3. CASE PatchCourseBegin(c)
  BY <1>3, CalmReceive DEF PatchCourseBegin
<1>4. CASE PatchCourseCheck(c)
  BY <1>4, CalmLook DEF PatchCourseCheck, At, Req
<1>5. CASE PatchCourseWrite(c)
  BY <1>5, CalmEnd DEF PatchCourseWrite, Same, fleet
<1>6. CASE PatchCourseRetry(c)
  BY <1>6, CalmLook DEF PatchCourseRetry, At, Req
<1>7. CASE DeleteCourseBegin(c)
  BY <1>7, CalmReceive DEF DeleteCourseBegin
<1>8. CASE DeleteCourseLock(c)
  BY <1>8, CalmTake DEF DeleteCourseLock, At, Req
<1>9. CASE DeleteCourseCount(c)
  BY <1>9, CalmLook DEF DeleteCourseCount, At, Req
<1>10. CASE DeleteCourseWrite(c)
  BY <1>10, CalmEnd DEF DeleteCourseWrite, Same, fleet
<1>11. CASE EnrolBegin(c)
  BY <1>11, CalmReceive DEF EnrolBegin
<1>12. CASE EnrolWrite(c)
  BY <1>12, CalmEnd DEF EnrolWrite, Same, fleet
<1>13. CASE SetSeatBegin(c)
  BY <1>13, CalmReceive DEF SetSeatBegin
<1>14. CASE SetSeatWrite(c)
  BY <1>14, CalmEnd DEF SetSeatWrite, Same, fleet
<1>15. QED
  BY <1>1, <1>2, <1>3, <1>4, <1>5, <1>6, <1>7, <1>8, <1>9, <1>10, <1>11, <1>12, <1>13,
     <1>14 DEF CourseStep

(* Repairs and other changes of a vehicle that leave it where it is.        *)
LEMMA RepairsAreGentle ==
  ASSUME FleetInv, NEW S, UNCHANGED schools,
         vehicles' = [v \in Vehicles |->
                        IF v \in S THEN Repaired(vehicles[v]) ELSE vehicles[v]]
  PROVE  Gentle
<1>1. \A v \in Vehicles :
        /\ Repaired(vehicles[v]) \in VehicleRow
        /\ Repaired(vehicles[v]).state = vehicles[v].state
        /\ Repaired(vehicles[v]).school = vehicles[v].school
  BY DEF FleetInv, Typed, VehicleRow, Repaired, Null
<1>2. QED
  BY <1>1 DEF FleetInv, Typed, Gentle

LEMMA RepairIsGentle ==
  ASSUME FleetInv, NEW w, UNCHANGED schools,
         vehicles' = [vehicles EXCEPT ![w] = Repaired(vehicles[w])]
  PROVE  Gentle
<1>1. vehicles' = [v \in Vehicles |->
                     IF v \in {w} THEN Repaired(vehicles[v]) ELSE vehicles[v]]
  BY DEF FleetInv, Typed
<1>2. QED
  BY <1>1, RepairsAreGentle

LEMMA BookingSteps ==
  ASSUME FleetInv, NEW c \in Clients, BookingStep(c)
  PROVE  Calm(c)
<1> USE DEF Special
<1>1. CASE BookLessonBegin(c)
  BY <1>1, CalmReceive DEF BookLessonBegin
<1>2. CASE BookOwnLessonBegin(c)
  BY <1>2, CalmReceive DEF BookOwnLessonBegin
<1>3. CASE BookLessonCheck(c)
  BY <1>3, CalmLook DEF BookLessonCheck, BooksLesson, At, Req
<1>4. CASE BookLessonCommit(c)
  BY <1>4, CalmFinish, RepairsAreGentle DEF BookLessonCommit
<1>5. CASE BookLessonRetry(c)
  BY <1>5, CalmLook DEF BookLessonRetry, BooksLesson, At, Req
<1>6. CASE CancelBooking(c)
  BY <1>6, SameIsGentle DEF CancelBooking, Idle, Calm, Same, fleet, FleetInv, Typed, Steady
<1>7. CASE CreateEventBegin(c)
  <2>1. PICK r \in pending :
          /\ r.op = "createEvent" /\ Idle(c) /\ pending' = pending \ {r}
          /\ handlers' = [handlers EXCEPT ![c] =
               [req |-> r, step |-> "insert", saw |-> staff[r.instructor].school]]
          /\ \/ vehicles' = [vehicles EXCEPT ![r.vehicle] = Repaired(vehicles[r.vehicle])]
             \/ UNCHANGED vehicles
          /\ UNCHANGED <<schools, locked>>
    BY <1>7 DEF CreateEventBegin
  <2>2. Gentle
    BY <2>1, RepairIsGentle, SameIsGentle DEF Same
  <2>3. r \in Requests /\ Steady(c)
    BY <2>1 DEF FleetInv, Typed, Steady
  <2>4. handlers'[c] = [req |-> r, step |-> "insert", saw |-> staff[r.instructor].school]
    BY <2>1 DEF FleetInv, Typed
  <2>5. handlers'[c].req = r
    BY <2>4
  <2>6. QED
    BY <2>1, <2>2, <2>3, <2>4, <2>5 DEF Calm, Handler
<1>8. CASE CreateEventInsert(c)
  BY <1>8, CalmEnd DEF CreateEventInsert, Same, fleet
<1>9. CASE CheckLesson(c)
  <2>1. Gentle
    BY <1>9, RepairsAreGentle DEF CheckLesson
  <2>2. QED
    BY <1>9, <2>1 DEF CheckLesson, Idle, Calm, FleetInv, Typed, Steady
<1>10. QED
  BY <1>1, <1>2, <1>3, <1>4, <1>5, <1>6, <1>7, <1>8, <1>9 DEF BookingStep

(* -------------------------------------------- vehicles and schools, gently *)
LEMMA GentleFleetSteps ==
  ASSUME FleetInv, NEW c \in Clients,
         \/ UpdateVehicleBegin(c) \/ UpdateVehicleCheck(c) \/ UpdateVehicleWrite(c)
         \/ UpdateVehicleRetry(c)
         \/ VehicleStatusBegin(c) \/ VehicleStatusWrite(c)
         \/ ListVehiclesBegin(c) \/ ListVehiclesRepair(c) \/ ListVehiclesEnd(c)
  PROVE  Calm(c)
<1> USE DEF Special
<1>1. CASE UpdateVehicleBegin(c)
  BY <1>1, CalmReceive DEF UpdateVehicleBegin
<1>2. CASE UpdateVehicleCheck(c)
  BY <1>2, CalmLook DEF UpdateVehicleCheck, At, Req
<1>3. CASE UpdateVehicleWrite(c)
  <2>1. Req(c).vehicle \in Vehicles /\ Req(c).types \in Opt(SUBSET Types)
    BY <1>3, OwnRequest, RequestShapes DEF UpdateVehicleWrite, At, Req
  <2>2. Gentle
    BY <1>3, <2>1 DEF UpdateVehicleWrite, Gentle, FleetInv, Typed, VehicleRow, Opt
  <2>3. QED
    BY <1>3, <2>2, CalmFinish DEF UpdateVehicleWrite
<1>4. CASE UpdateVehicleRetry(c)
  BY <1>4, CalmLook DEF UpdateVehicleRetry, At, Req
<1>5. CASE VehicleStatusBegin(c)
  BY <1>5, CalmReceive DEF VehicleStatusBegin
<1>6. CASE VehicleStatusWrite(c)
  <2>1. /\ Req(c).vehicle \in Vehicles /\ Req(c).available \in BOOLEAN
        /\ Req(c).until \in Null(Nat)
    BY <1>6, OwnRequest, RequestShapes DEF VehicleStatusWrite, At, Req
  <2> DEFINE row == [vehicles[Req(c).vehicle] EXCEPT
                       !.available = Req(c).available,
                       !.until = IF Req(c).available THEN None ELSE Req(c).until]
  <2>2. /\ vehicles' = [vehicles EXCEPT ![Req(c).vehicle] = row]
        /\ UNCHANGED schools
    BY <1>6 DEF VehicleStatusWrite, FleetInv, Typed
  <2>3. /\ row \in VehicleRow
        /\ row.state = vehicles[Req(c).vehicle].state
        /\ row.school = vehicles[Req(c).vehicle].school
    BY <2>1 DEF FleetInv, Typed, VehicleRow, Null
  <2> HIDE DEF row
  <2>4. Gentle
    BY <2>1, <2>2, <2>3 DEF Gentle, FleetInv, Typed
  <2>5. QED
    BY <1>6, <2>4, CalmFinish DEF VehicleStatusWrite
<1>7. CASE ListVehiclesBegin(c)
  BY <1>7, CalmReceive DEF ListVehiclesBegin
<1>8. CASE ListVehiclesRepair(c)
  <2>1. Gentle
    BY <1>8, RepairIsGentle DEF ListVehiclesRepair
  <2>2. PICK sw : Goto(c, "repair", sw)
    BY <1>8 DEF ListVehiclesRepair
  <2>3. ~Idle(c) /\ Req(c).op = "listVehicles" /\ locked' = locked
    BY <1>8 DEF ListVehiclesRepair, At, Req
  <2>4. /\ Handler(handlers'[c]) /\ Steady(c)
        /\ handlers'[c] = [req |-> Req(c), step |-> "repair", saw |-> sw]
    BY <2>2, <2>3, WentOn DEF Steady, FleetInv, Typed
  <2>5. handlers'[c].req = Req(c)
    BY <2>4
  <2>6. QED
    BY <2>1, <2>3, <2>4, <2>5 DEF Calm
<1>9. CASE ListVehiclesEnd(c)
  BY <1>9, CalmEnd DEF ListVehiclesEnd, Same, tables, fleet
<1>10. QED
  BY <1>1, <1>2, <1>3, <1>4, <1>5, <1>6, <1>7, <1>8, <1>9

LEMMA GentleSchoolSteps ==
  ASSUME FleetInv, NEW c \in Clients,
         \/ CreateSchoolBegin(c)
         \/ SetDefaultSchoolBegin(c) \/ SetDefaultSchoolWrite(c)
         \/ UpdateSchoolBegin(c) \/ UpdateSchoolWrite(c) \/ ReadDefaultBegin(c)
  PROVE  Calm(c)
<1> USE DEF Special
<1>1. CASE CreateSchoolBegin(c)
  BY <1>1, CalmReceive DEF CreateSchoolBegin
<1>2. CASE SetDefaultSchoolBegin(c)
  BY <1>2, CalmReceive DEF SetDefaultSchoolBegin
<1>3. CASE SetDefaultSchoolWrite(c)
  BY <1>3, CalmEnd DEF SetDefaultSchoolWrite, Same
<1>4. CASE UpdateSchoolBegin(c)
  BY <1>4, CalmReceive DEF UpdateSchoolBegin
<1>5. CASE UpdateSchoolWrite(c)
  <2>1. Req(c).school \in Schools /\ Req(c).kinds \in Opt(SUBSET {"PRACTICE", "THEORY"})
    BY <1>5, OwnRequest, RequestShapes DEF UpdateSchoolWrite, At, Req
  <2>2. Gentle
    BY <1>5, <2>1 DEF UpdateSchoolWrite, Gentle, FleetInv, Typed, SchoolRow, Opt
  <2>3. QED
    BY <1>5, <2>2, CalmFinish DEF UpdateSchoolWrite
<1>6. CASE ReadDefaultBegin(c)
  BY <1>6, CalmReceive DEF ReadDefaultBegin
<1>7. QED
  BY <1>1, <1>2, <1>3, <1>4, <1>5, <1>6

(* ------------------------------------- the locks and reads of the decisions *)
\* What the handler is about to do after a step, in its own words.
LEMMA IdleOwn ==
  ASSUME NEW c \in Clients, handlers'[c] = None
  PROVE  Own(c)' /\ Handler(handlers'[c])
BY DEF Own, Adding, Retiring, Choosing, Closing, At, Idle, Handler

LEMMA SchoolOwn ==
  ASSUME NEW c \in Clients, NEW r, NEW step, NEW saw,
         handlers'[c] = [req |-> r, step |-> step, saw |-> saw],
         r.op \in {"createSchool", "deleteSchool", "readDefault"},
         step = "write" /\ r.op = "deleteSchool" => locked'[r.school] = c
  PROVE  Own(c)'
<1>1. handlers'[c].req = r /\ handlers'[c].step = step
  OBVIOUS
<1>2. QED
  BY <1>1 DEF Own, Adding, Retiring, Choosing, Closing, At, Idle, Req

LEMMA SchoolSteps ==
  ASSUME FleetInv, NEW c \in Clients,
         \/ DeleteSchoolBegin(c) \/ DeleteSchoolRead(c) \/ DeleteSchoolMark(c)
         \/ ReconcileOwned(c) \/ ReconcileStored(c) \/ ReconcileRepair(c)
  PROVE  FleetInv'
<1>1. ASSUME NEW r \in pending, r.op = "deleteSchool", Receive(c, r, "read", None)
      PROVE  FleetInv'
  <2>1. /\ Steady(c) /\ Gentle /\ Handler(handlers'[c])
        /\ handlers'[c] = [req |-> r, step |-> "read", saw |-> None]
    BY <1>1, Received
  <2>2. QED
    BY <1>1, <2>1, SchoolOwn, Frame
<1>2. ASSUME NEW step, NEW saw, ~Idle(c), Look(c, step, saw), step # "write",
             Req(c).op \in {"createSchool", "deleteSchool", "readDefault"}
      PROVE  FleetInv'
  <2>1. Goto(c, step, saw) /\ Steady(c) /\ Gentle
    BY <1>2, Looked DEF Look
  <2>2. /\ Handler(handlers'[c])
        /\ handlers'[c] = [req |-> Req(c), step |-> step, saw |-> saw]
    BY <1>2, <2>1, WentOn
  <2>3. Own(c)'
    BY <1>2, <2>2, SchoolOwn
  <2>4. QED
    BY <2>1, <2>2, <2>3, Frame
<1>3. ASSUME Finish(c), Same
      PROVE  FleetInv'
  BY <1>3, CalmEnd, CalmKeeps
<1>4. CASE DeleteSchoolBegin(c)
  BY <1>1, <1>4 DEF DeleteSchoolBegin
<1>5. CASE DeleteSchoolRead(c)
  BY <1>2, <1>5 DEF DeleteSchoolRead, At, Req
<1>6. CASE DeleteSchoolMark(c)
  <2>1. PICK saw : Take(c, Req(c).school, "write", saw)
    BY <1>6 DEF DeleteSchoolMark
  <2>2. ~Idle(c) /\ Req(c).op = "deleteSchool" /\ Req(c).school \in Rows
    BY <1>6, OwnRequest, RequestShapes DEF DeleteSchoolMark, At, Req, Rows
  <2>3. Steady(c) /\ Gentle /\ locked'[Req(c).school] = c
    BY <2>1, <2>2, Took
  <2>4. /\ Handler(handlers'[c])
        /\ handlers'[c] = [req |-> Req(c), step |-> "write", saw |-> saw]
    BY <2>1, <2>2, WentOn DEF Take
  <2>5. Own(c)'
    BY <2>2, <2>3, <2>4, SchoolOwn
  <2>6. QED
    BY <2>3, <2>4, <2>5, Frame
<1>7. CASE ReconcileOwned(c)
  BY <1>2, <1>7 DEF ReconcileOwned, Reconciles, At, Req
<1>8. CASE ReconcileStored(c)
  <2>1. \/ Finish(c) /\ Same
        \/ \E saw : Look(c, "repair", saw)
    BY <1>8 DEF ReconcileStored, Same, tables, fleet
  <2>2. ~Idle(c) /\ Req(c).op \in {"createSchool", "deleteSchool", "readDefault"}
    BY <1>8 DEF ReconcileStored, Reconciles, At, Req
  <2>3. QED
    BY <1>2, <1>3, <2>1, <2>2
<1>9. CASE ReconcileRepair(c)
  BY <1>3, <1>9 DEF ReconcileRepair, Same
<1>10. QED
  BY <1>4, <1>5, <1>6, <1>7, <1>8, <1>9

\* A look or a lock on the way to a write: what it establishes for its handler
\* is all that is left to show.
LEMMA OnTheWay ==
  ASSUME FleetInv, NEW c \in Clients, ~Idle(c), NEW step, NEW saw,
         \/ Look(c, step, saw)
         \/ \E x : Take(c, x, step, saw)
  PROVE  /\ Steady(c) /\ Gentle
         /\ ~Idle(c)' => Req(c)' = Req(c) /\ handlers'[c].step = step /\ Saw(c)' = saw
         /\ Own(c)' => FleetInv'
<1>1. Goto(c, step, saw) /\ Steady(c) /\ Gentle
  BY Looked, Took DEF Look, Take
<1>2. /\ Handler(handlers'[c])
      /\ handlers'[c] = [req |-> Req(c), step |-> step, saw |-> saw]
  BY <1>1, WentOn
<1>3. Req(c)' = Req(c) /\ handlers'[c].step = step /\ Saw(c)' = saw
  BY <1>2 DEF Req, Saw
<1>4. QED
  BY <1>1, <1>2, <1>3, Frame

LEMMA ReceiveVehicleRequest ==
  ASSUME FleetInv, NEW c \in Clients, NEW r \in pending, Receive(c, r, "lock", None),
         r.op \in {"createVehicle", "deleteVehicle", "setDefaultVehicle"},
         r.op = "createVehicle" => schools[r.school].state # "free"
  PROVE  FleetInv'
<1>1. /\ Steady(c) /\ Gentle /\ r \in Requests /\ Handler(handlers'[c])
      /\ handlers'[c] = [req |-> r, step |-> "lock", saw |-> None]
  BY Received
<1>2. handlers'[c].req = r /\ handlers'[c].step = "lock"
  BY <1>1
<1>3. r.op = "createVehicle" => schools'[r.school].state # "free"
  BY <1>1, RequestShapes DEF Gentle
<1>4. Own(c)'
  BY <1>2, <1>3 DEF Own, Adding, Retiring, Choosing, Closing, At, Idle, Req
<1>5. QED
  BY <1>1, <1>4, Frame

LEMMA AddingSteps ==
  ASSUME FleetInv, NEW c \in Clients,
         CreateVehicleBegin(c) \/ CreateVehicleLock(c) \/ CreateVehicleCount(c)
  PROVE  FleetInv'
<1>1. CASE CreateVehicleBegin(c)
  BY <1>1, ReceiveVehicleRequest DEF CreateVehicleBegin, Owns, Live
<1>2. ASSUME ~Idle(c), Req(c).op = "createVehicle"
      PROVE  /\ Req(c).school \in Schools /\ Req(c).school \in Rows
             /\ schools[Req(c).school].state # "free"
  BY <1>2, OwnRequest, RequestShapes DEF FleetInv, Own, Adding, Rows
<1>3. CASE CreateVehicleLock(c)
  <2>1. ~Idle(c) /\ Req(c).op = "createVehicle" /\ Take(c, Req(c).school, "count", None)
    BY <1>3 DEF CreateVehicleLock, At, Req
  <2>2. /\ Gentle /\ locked'[Req(c).school] = c
        /\ ~Idle(c)' => Req(c)' = Req(c) /\ handlers'[c].step = "count"
        /\ Own(c)' => FleetInv'
    BY <1>2, <2>1, Took, OnTheWay
  <2>3. schools'[Req(c).school].state # "free"
    BY <1>2, <2>1, <2>2 DEF Gentle
  <2>4. Own(c)'
    BY <2>1, <2>2, <2>3 DEF Own, Adding, Retiring, Choosing, Closing, At, Req
  <2>5. QED
    BY <2>2, <2>4
<1>4. CASE CreateVehicleCount(c)
  <2>1. /\ ~Idle(c) /\ Req(c).op = "createVehicle" /\ handlers[c].step = "count"
        /\ Look(c, "write", FleetOf(Req(c).school) = {})
    BY <1>4 DEF CreateVehicleCount, At, Req
  <2>2. /\ Gentle /\ locked' = locked
        /\ ~Idle(c)' => /\ Req(c)' = Req(c) /\ handlers'[c].step = "write"
                        /\ Saw(c)' = (FleetOf(Req(c).school) = {})
        /\ Own(c)' => FleetInv'
    BY <2>1, Looked, OnTheWay
  <2>3. schools'[Req(c).school].state # "free" /\ locked'[Req(c).school] = c
    BY <1>2, <2>1, <2>2 DEF Gentle, FleetInv, Own, Adding
  <2>4. ~Idle(c)' /\ ~Saw(c)' => FleetOf(Req(c).school) # {}
    BY <2>2
  <2>5. \A s : FleetOf(s)' = FleetOf(s)
    BY <2>2, GentleFleets
  <2>6. Adding(c)'
    BY <2>2, <2>3, <2>4, <2>5 DEF Adding
  <2>7. Own(c)'
    BY <2>1, <2>2, <2>6 DEF Own, Retiring, Choosing, Closing, At, Req
  <2>8. QED
    BY <2>2, <2>7
<1>5. QED
  BY <1>1, <1>3, <1>4

LEMMA ChoosingSteps ==
  ASSUME FleetInv, NEW c \in Clients,
         SetDefaultVehicleBegin(c) \/ SetDefaultVehicleLock(c) \/ SetDefaultVehicleCheck(c)
  PROVE  FleetInv'
<1>1. CASE SetDefaultVehicleBegin(c)
  BY <1>1, ReceiveVehicleRequest DEF SetDefaultVehicleBegin
<1>2. ASSUME ~Idle(c), Req(c).op = "setDefaultVehicle"
      PROVE  Req(c).vehicle \in Vehicles /\ Req(c).vehicle \in Rows
  BY <1>2, OwnRequest, RequestShapes DEF Rows
<1>3. CASE SetDefaultVehicleLock(c)
  <2>1. ~Idle(c) /\ Req(c).op = "setDefaultVehicle" /\ Take(c, Req(c).vehicle, "check", None)
    BY <1>3 DEF SetDefaultVehicleLock, At, Req
  <2>2. /\ locked'[Req(c).vehicle] = c
        /\ ~Idle(c)' => Req(c)' = Req(c) /\ handlers'[c].step = "check"
        /\ Own(c)' => FleetInv'
    BY <1>2, <2>1, Took, OnTheWay
  <2>3. Own(c)'
    BY <2>1, <2>2 DEF Own, Adding, Retiring, Choosing, Closing, At, Req
  <2>4. QED
    BY <2>2, <2>3
<1>4. CASE SetDefaultVehicleCheck(c)
  <2>1. /\ ~Idle(c) /\ Req(c).op = "setDefaultVehicle" /\ handlers[c].step = "check"
        /\ Look(c, "write", None)
        /\ Live(vehicles[Req(c).vehicle]) /\ vehicles[Req(c).vehicle].school = Req(c).school
    BY <1>4 DEF SetDefaultVehicleCheck, At, Req
  <2>2. /\ Gentle /\ locked' = locked
        /\ ~Idle(c)' => Req(c)' = Req(c) /\ handlers'[c].step = "write"
        /\ Own(c)' => FleetInv'
    BY <2>1, Looked, OnTheWay
  <2>3. /\ locked'[Req(c).vehicle] = c /\ vehicles'[Req(c).vehicle].state = "live"
        /\ vehicles'[Req(c).vehicle].school = Req(c).school
    BY <1>2, <2>1, <2>2 DEF Gentle, Live, FleetInv, Own, Choosing
  <2>4. Own(c)'
    BY <2>1, <2>2, <2>3 DEF Own, Adding, Retiring, Choosing, Closing, At, Req, Live
  <2>5. QED
    BY <2>2, <2>4
<1>5. QED
  BY <1>1, <1>3, <1>4

LEMMA RetiringSteps ==
  ASSUME FleetInv, NEW c \in Clients,
         \/ DeleteVehicleBegin(c) \/ DeleteVehicleLock(c) \/ DeleteVehicleLockSchool(c)
         \/ DeleteVehicleCheck(c) \/ DeleteVehicleCount(c)
  PROVE  FleetInv'
<1> DEFINE v == Req(c).vehicle
           s == vehicles[v].school
<1>1. CASE DeleteVehicleBegin(c)
  BY <1>1, ReceiveVehicleRequest DEF DeleteVehicleBegin
<1>2. ASSUME ~Idle(c), Req(c).op = "deleteVehicle"
      PROVE  v \in Vehicles /\ v \in Rows /\ s \in Null(Schools) /\ Retiring(c)
  BY <1>2, OwnRequest, RequestShapes DEF FleetInv, Typed, Own, VehicleRow, Rows
<1>3. ASSUME ~Idle(c), Req(c).op = "deleteVehicle", Req(c)' = Req(c), Retiring(c)'
      PROVE  Own(c)'
  BY <1>3 DEF Own, Adding, Choosing, Closing, At, Req
<1>4. CASE DeleteVehicleLock(c)
  <2>1. ~Idle(c) /\ Req(c).op = "deleteVehicle" /\ Take(c, v, "school", None)
    BY <1>4 DEF DeleteVehicleLock, At, Req
  <2>2. /\ locked'[v] = c
        /\ ~Idle(c)' => Req(c)' = Req(c) /\ handlers'[c].step = "school"
        /\ Own(c)' => FleetInv'
    BY <1>2, <2>1, Took, OnTheWay
  <2>3. Retiring(c)'
    BY <2>2 DEF Retiring
  <2>4. QED
    BY <1>3, <2>1, <2>2, <2>3 DEF Own, Adding, Retiring, Choosing, Closing, At
<1>5. CASE DeleteVehicleLockSchool(c)
  <2>1. /\ ~Idle(c) /\ Req(c).op = "deleteVehicle" /\ handlers[c].step = "school"
        /\ s # None /\ Take(c, s, "check", None)
    BY <1>5 DEF DeleteVehicleLockSchool, At, Req
  <2>2. s \in Schools /\ s \in Rows /\ locked[v] = c
    BY <1>2, <2>1 DEF Null, Rows, Retiring
  <2>3. /\ Gentle /\ locked'[s] = c /\ locked'[v] = c
        /\ ~Idle(c)' => Req(c)' = Req(c) /\ handlers'[c].step = "check"
        /\ Own(c)' => FleetInv'
    BY <1>2, <2>1, <2>2, Took, OnTheWay DEF Take, FleetInv, Typed
  <2>4. vehicles'[v].school = s
    BY <1>2, <2>1, <2>3 DEF Gentle
  <2>5. Retiring(c)'
    BY <2>2, <2>3, <2>4 DEF Retiring
  <2>6. QED
    BY <1>3, <2>1, <2>3, <2>5 DEF Own, Adding, Retiring, Choosing, Closing, At
<1>6. CASE DeleteVehicleCheck(c)
  <2>1. /\ ~Idle(c) /\ Req(c).op = "deleteVehicle" /\ handlers[c].step = "check"
    BY <1>6 DEF DeleteVehicleCheck, At, Req
  <2>2. s \in Schools /\ locked[v] = c /\ locked[s] = c
    BY <1>2, <2>1 DEF Retiring
  <2>3. CASE Live(vehicles[v])
    <3>1. /\ schools[s].vehicle = v => FleetOf(s) = {v}
          /\ Look(c, "count", schools[s].vehicle = v)
      BY <1>6, <2>3 DEF DeleteVehicleCheck
    <3>2. /\ Gentle /\ locked' = locked
          /\ ~Idle(c)' => /\ Req(c)' = Req(c) /\ handlers'[c].step = "count"
                          /\ Saw(c)' = (schools[s].vehicle = v)
          /\ Own(c)' => FleetInv'
      BY <2>1, <3>1, Looked, OnTheWay
    <3>3. /\ vehicles'[v].school = s /\ vehicles'[v].state = "live"
          /\ schools'[s].vehicle = schools[s].vehicle
      BY <1>2, <2>1, <2>2, <2>3, <3>2 DEF Gentle, Live
    <3>4. /\ locked' = locked
          /\ ~Idle(c)' => /\ Req(c)' = Req(c) /\ handlers'[c].step = "count"
                          /\ Saw(c)' => FleetOf(s) = {v}
                          /\ ~Saw(c)' => schools'[s].vehicle # v
      BY <3>1, <3>2, <3>3
    <3>5. \A t : FleetOf(t)' = FleetOf(t)
      BY <3>2, GentleFleets
    <3>6. Retiring(c)'
      BY <2>2, <3>3, <3>4, <3>5 DEF Retiring, Live
    <3>7. QED
      BY <1>3, <2>1, <3>2, <3>6 DEF Own, Adding, Retiring, Choosing, Closing, At
  <2>4. CASE ~Live(vehicles[v])
    BY <1>6, <2>4, CalmEnd, CalmKeeps DEF DeleteVehicleCheck, Same, tables, fleet
  <2>5. QED
    BY <2>3, <2>4
<1>7. CASE DeleteVehicleCount(c)
  <2>1. /\ ~Idle(c) /\ Req(c).op = "deleteVehicle" /\ handlers[c].step = "count"
        /\ Look(c, "write", Saw(c))
    BY <1>7 DEF DeleteVehicleCount, At, Req
  <2>2. /\ s \in Schools /\ locked[v] = c /\ locked[s] = c /\ Live(vehicles[v])
        /\ Saw(c) => FleetOf(s) = {v}
        /\ ~Saw(c) => schools[s].vehicle # v
    BY <1>2, <2>1 DEF Retiring
  <2>3. /\ Gentle /\ locked' = locked
        /\ ~Idle(c)' => /\ Req(c)' = Req(c) /\ handlers'[c].step = "write"
                        /\ Saw(c)' = Saw(c)
        /\ Own(c)' => FleetInv'
    BY <2>1, Looked, OnTheWay
  <2>4. /\ vehicles'[v].school = s /\ vehicles'[v].state = "live"
        /\ schools'[s].vehicle = schools[s].vehicle
    BY <1>2, <2>1, <2>2, <2>3 DEF Gentle, Live
  <2>5. ~Idle(c)' => /\ Saw(c)' => FleetOf(s) = {v}
                     /\ ~Saw(c)' => schools'[s].vehicle # v
    BY <2>2, <2>3, <2>4
  <2>6. \A t : FleetOf(t)' = FleetOf(t)
    BY <2>3, GentleFleets
  <2>7. Retiring(c)'
    BY <2>2, <2>3, <2>4, <2>5, <2>6 DEF Retiring, Live
  <2>8. QED
    BY <1>3, <2>1, <2>3, <2>7 DEF Own, Adding, Retiring, Choosing, Closing, At
<1>8. QED
  BY <1>1, <1>4, <1>5, <1>6, <1>7

(* ------------------------------------------------------------- the writes *)
\* A write: the tables stay as required, and what the others have locked stays
\* as it is.
LEMMA Written ==
  ASSUME FleetInv, NEW c \in Clients, Steady(c), Handler(handlers'[c]), Own(c)',
         schools' \in [Schools -> SchoolRow], vehicles' \in [Vehicles -> VehicleRow],
         Placed', DefaultVehicleIsLive', FleetHasDefault',
         \A d \in Clients : d # c => Kept(d)
  PROVE  FleetInv'
<1>1. Typed'
  BY DEF FleetInv, Typed, Steady
<1>2. \A d \in Clients : Own(d)'
  BY OthersRely
<1>3. QED
  BY <1>1, <1>2 DEF FleetInv

LEMMA AddingWrite ==
  ASSUME FleetInv, NEW c \in Clients, CreateVehicleWrite(c)
  PROVE  FleetInv'
<1> DEFINE w == Req(c).vehicle
           t == Req(c).school
           row == [state |-> "live", school |-> t, types |-> Req(c).types,
                   available |-> TRUE, until |-> None]
<1>1. /\ ~Idle(c) /\ Req(c).op = "createVehicle" /\ handlers[c].step = "write"
      /\ vehicles[w].state = "free" /\ Finish(c)
      /\ vehicles' = [vehicles EXCEPT ![w] = row]
      /\ schools' = IF Saw(c) THEN [schools EXCEPT ![t].vehicle = w] ELSE schools
  BY DEF CreateVehicleWrite, At, Req
<1>2. w \in Vehicles /\ t \in Schools /\ Req(c).types \in SUBSET Types
  BY <1>1, OwnRequest, RequestShapes
<1>3. /\ schools[t].state # "free" /\ locked[t] = c
      /\ ~Saw(c) => FleetOf(t) # {}
  BY <1>1 DEF FleetInv, Own, Adding
<1>4. vehicles[w].school = None /\ None \notin Schools
  BY <1>1, <1>2, OfficeAssumption DEF FleetInv, Placed, Rows
<1>5. vehicles'[w] = row /\ \A v \in Vehicles : v # w => vehicles'[v] = vehicles[v]
  BY <1>1, <1>2 DEF FleetInv, Typed
<1>6. row \in VehicleRow /\ row.state = "live" /\ row.school = t
  BY <1>2 DEF VehicleRow, States, Null
<1> HIDE DEF row
<1>7. vehicles' \in [Vehicles -> VehicleRow]
  BY <1>1, <1>6 DEF FleetInv, Typed
<1>8. /\ schools' \in [Schools -> SchoolRow]
      /\ \A s \in Schools : /\ schools'[s].state = schools[s].state
                            /\ s # t => schools'[s] = schools[s]
  BY <1>1, <1>2 DEF FleetInv, Typed, SchoolRow, Null
<1>9. schools'[t].vehicle = w \/ (FleetOf(t) # {} /\ schools'[t].vehicle = schools[t].vehicle)
  BY <1>1, <1>2, <1>3 DEF FleetInv, Typed
<1>10. \A s \in Schools : FleetOf(s)' = IF s = t THEN FleetOf(s) \cup {w} ELSE FleetOf(s)
  BY <1>2, <1>4, <1>5, <1>6 DEF FleetOf, Live
<1>11. Placed'
  BY <1>2, <1>3, <1>5, <1>6, <1>8 DEF FleetInv, Placed, Live
<1>12. DefaultVehicleIsLive'
  BY <1>8, <1>9, <1>10 DEF FleetInv, DefaultVehicleIsLive
<1>13. FleetHasDefault'
  BY <1>2, <1>8, <1>9, <1>10, OfficeAssumption DEF FleetInv, FleetHasDefault, Rows
<1>14. \A d \in Clients : d # c => Kept(d)
  BY <1>3, <1>4, <1>5, <1>8, <1>10 DEF Kept
<1>15. QED
  BY <1>1, <1>7, <1>8, <1>11, <1>12, <1>13, <1>14, Ended, IdleOwn, Written

LEMMA RetiringWrite ==
  ASSUME FleetInv, NEW c \in Clients, DeleteVehicleWrite(c)
  PROVE  FleetInv'
<1> DEFINE w == Req(c).vehicle
<1>1. PICK t : t = vehicles[w].school
  OBVIOUS
<1>2. /\ ~Idle(c) /\ Req(c).op = "deleteVehicle" /\ handlers[c].step = "write"
      /\ Finish(c) /\ vehicles' = [vehicles EXCEPT ![w].state = "gone"]
      /\ schools' = IF Saw(c) THEN [schools EXCEPT ![t].vehicle = None] ELSE schools
  BY <1>1 DEF DeleteVehicleWrite, At, Req
<1>3. w \in Vehicles
  BY <1>2, OwnRequest, RequestShapes
<1>4. /\ locked[w] = c /\ t \in Schools /\ locked[t] = c /\ Live(vehicles[w])
      /\ Saw(c) => FleetOf(t) = {w}
      /\ ~Saw(c) => schools[t].vehicle # w
  BY <1>1, <1>2 DEF FleetInv, Own, Retiring
<1>5. /\ vehicles'[w] = [vehicles[w] EXCEPT !.state = "gone"]
      /\ \A v \in Vehicles : v # w => vehicles'[v] = vehicles[v]
  BY <1>2, <1>3 DEF FleetInv, Typed
<1>6. /\ vehicles'[w] \in VehicleRow /\ vehicles'[w].state = "gone"
      /\ vehicles'[w].school = t
  BY <1>1, <1>3, <1>5 DEF FleetInv, Typed, VehicleRow, States
<1>7. vehicles' \in [Vehicles -> VehicleRow]
  BY <1>2, <1>5, <1>6 DEF FleetInv, Typed
<1>8. /\ schools' \in [Schools -> SchoolRow]
      /\ \A s \in Schools : /\ schools'[s].state = schools[s].state
                            /\ s # t => schools'[s] = schools[s]
  BY <1>2, <1>4 DEF FleetInv, Typed, SchoolRow, Null
<1>9. \A s \in Schools : FleetOf(s)' = IF s = t THEN FleetOf(s) \ {w} ELSE FleetOf(s)
  BY <1>1, <1>3, <1>5, <1>6 DEF FleetOf, Live
<1>10. \/ FleetOf(t) = {w} /\ schools'[t].vehicle = None
       \/ schools'[t].vehicle = schools[t].vehicle /\ schools[t].vehicle # w
  BY <1>2, <1>4 DEF FleetInv, Typed
<1>11. Placed'
  BY <1>3, <1>5, <1>6, <1>8 DEF FleetInv, Placed, Live
<1>12. DefaultVehicleIsLive'
  BY <1>4, <1>8, <1>9, <1>10 DEF FleetInv, DefaultVehicleIsLive
<1>13. FleetHasDefault'
  BY <1>4, <1>8, <1>9, <1>10 DEF FleetInv, FleetHasDefault
<1>14. \A d \in Clients : d # c => Kept(d)
  BY <1>4, <1>5, <1>8, <1>9 DEF Kept
<1>15. QED
  BY <1>2, <1>7, <1>8, <1>11, <1>12, <1>13, <1>14, Ended, IdleOwn, Written

LEMMA ChoosingWrite ==
  ASSUME FleetInv, NEW c \in Clients, SetDefaultVehicleWrite(c)
  PROVE  FleetInv'
<1> DEFINE w == Req(c).vehicle
           t == Req(c).school
<1>1. /\ ~Idle(c) /\ Req(c).op = "setDefaultVehicle" /\ handlers[c].step = "write"
      /\ Finish(c) /\ UNCHANGED vehicles /\ Free(c, {t})
      /\ schools' = [schools EXCEPT ![t].vehicle = w]
  BY DEF SetDefaultVehicleWrite, At, Req
<1>2. w \in Vehicles /\ t \in Schools
  BY <1>1, OwnRequest, RequestShapes
<1>3. Live(vehicles[w]) /\ vehicles[w].school = t
  BY <1>1 DEF FleetInv, Own, Choosing
<1>4. locked[t] \in {None, c}
  BY <1>1, <1>2, OfficeAssumption DEF Free, Rows
<1>5. /\ schools' \in [Schools -> SchoolRow] /\ schools'[t].vehicle = w
      /\ \A s \in Schools : /\ schools'[s].state = schools[s].state
                            /\ s # t => schools'[s] = schools[s]
  BY <1>1, <1>2 DEF FleetInv, Typed, SchoolRow, Null
<1>6. w \in FleetOf(t) /\ \A s \in Schools : FleetOf(s)' = FleetOf(s)
  BY <1>1, <1>2, <1>3 DEF FleetOf, Live
<1>7. Placed'
  BY <1>1, <1>5 DEF FleetInv, Placed, Live
<1>8. DefaultVehicleIsLive'
  BY <1>5, <1>6 DEF FleetInv, DefaultVehicleIsLive
<1>9. FleetHasDefault'
  BY <1>2, <1>5, <1>6, OfficeAssumption DEF FleetInv, FleetHasDefault, Rows
<1>10. \A d \in Clients : d # c => Kept(d)
  BY <1>1, <1>4, <1>5, <1>6, OfficeAssumption DEF Kept
<1>11. QED
  BY <1>1, <1>5, <1>7, <1>8, <1>9, <1>10, Ended, IdleOwn, Written DEF FleetInv, Typed

LEMMA SchoolsCounted == FleetInv => NextSince \in Nat
<1>1. {s \in Schools : schools[s].state # "free"} \in SUBSET Schools
  OBVIOUS
<1>2. QED
  BY <1>1, OfficeAssumption, FS_Subset, FS_CardinalityType DEF NextSince

LEMMA OpeningSchool ==
  ASSUME FleetInv, NEW c \in Clients, CreateSchoolWrite(c)
  PROVE  FleetInv'
<1> DEFINE t == Req(c).school
           row == [state |-> "live", owner |-> Req(c).actor, vehicle |-> None,
                   kinds |-> {}, since |-> NextSince]
<1>1. /\ ~Idle(c) /\ Req(c).op = "createSchool"
      /\ schools[t].state = "free" /\ UNCHANGED vehicles
      /\ schools' = [schools EXCEPT ![t] = row]
      /\ Finish(c) \/ (Goto(c, "owned", None) /\ UNCHANGED locked)
  BY DEF CreateSchoolWrite, At, Req
<1>2. t \in Schools /\ Req(c).actor \in Managers
  BY <1>1, OwnRequest, RequestShapes
<1>3. row \in SchoolRow /\ row.state = "live" /\ row.vehicle = None
  BY <1>2, SchoolsCounted DEF SchoolRow, States, Null
<1> HIDE DEF row
<1>4. /\ schools' \in [Schools -> SchoolRow] /\ schools'[t] = row
      /\ \A s \in Schools : s # t => schools'[s] = schools[s]
  BY <1>1, <1>2, <1>3 DEF FleetInv, Typed
<1>5. FleetOf(t) = {} /\ \A s \in Schools : FleetOf(s)' = FleetOf(s)
  BY <1>1, <1>2 DEF FleetInv, Placed, FleetOf, Live
<1>6. Placed'
  BY <1>1, <1>3, <1>4 DEF FleetInv, Placed, Live
<1>7. DefaultVehicleIsLive' /\ FleetHasDefault'
  BY <1>2, <1>3, <1>4, <1>5 DEF FleetInv, DefaultVehicleIsLive, FleetHasDefault
<1>8. \A d \in Clients : d # c => Kept(d)
  BY <1>1, <1>3, <1>4, <1>5 DEF Kept
<1>9. Steady(c) /\ Handler(handlers'[c]) /\ Own(c)'
  <2>1. CASE Finish(c)
    BY <2>1, Ended, IdleOwn
  <2>2. CASE Goto(c, "owned", None) /\ UNCHANGED locked
    <3>1. /\ handlers'[c] = [req |-> Req(c), step |-> "owned", saw |-> None]
          /\ Handler(handlers'[c]) /\ Steady(c)
      BY <1>1, <2>2, WentOn DEF FleetInv, Typed, Steady
    <3>2. QED
      BY <1>1, <3>1, SchoolOwn
  <2>3. QED
    BY <1>1, <2>1, <2>2
<1>10. QED
  BY <1>1, <1>4, <1>6, <1>7, <1>8, <1>9, Written DEF FleetInv, Typed

LEMMA ClosingSchool ==
  ASSUME FleetInv, NEW c \in Clients, DeleteSchoolWrite(c)
  PROVE  FleetInv'
<1> DEFINE t == Req(c).school
<1>1. /\ At(c, "deleteSchool", "write") /\ ~Idle(c) /\ Req(c).op = "deleteSchool"
      /\ UNCHANGED vehicles
      /\ schools' = [schools EXCEPT ![t].state = "gone"]
      /\ Goto(c, "owned", None) /\ locked' = [locked EXCEPT ![t] = None]
  BY DEF DeleteSchoolWrite, At, Req
<1>2. t \in Schools /\ locked[t] = c
  BY <1>1, OwnRequest, RequestShapes DEF FleetInv, Own, Closing
<1>3. /\ schools' \in [Schools -> SchoolRow] /\ schools'[t].state = "gone"
      /\ \A s \in Schools : /\ s # t => schools'[s] = schools[s]
                            /\ schools'[s].vehicle = schools[s].vehicle
  BY <1>1, <1>2 DEF FleetInv, Typed, SchoolRow, States
<1>4. \A s \in Schools : FleetOf(s)' = FleetOf(s)
  BY <1>1 DEF FleetOf, Live
<1>5. Placed'
  BY <1>1, <1>3 DEF FleetInv, Placed, Live
<1>6. DefaultVehicleIsLive' /\ FleetHasDefault'
  BY <1>3, <1>4 DEF FleetInv, DefaultVehicleIsLive, FleetHasDefault
<1>7. \A d \in Clients : d # c => Kept(d)
  BY <1>1, <1>3, <1>4 DEF Kept
<1>8. /\ handlers'[c] = [req |-> Req(c), step |-> "owned", saw |-> None]
      /\ Handler(handlers'[c]) /\ Steady(c)
  BY <1>1, <1>2, WentOn DEF FleetInv, Typed, Steady
<1>9. Own(c)'
  BY <1>1, <1>8, SchoolOwn
<1>10. QED
  BY <1>1, <1>3, <1>5, <1>6, <1>7, <1>8, <1>9, Written DEF FleetInv, Typed

(* -------------------------------------------- no step disturbs the others *)
LEMMA SpecialSteady ==
  ASSUME FleetInv, NEW c \in Clients,
         \/ CreateVehicleBegin(c) \/ CreateVehicleLock(c) \/ CreateVehicleCount(c)
         \/ CreateVehicleWrite(c)
         \/ DeleteVehicleBegin(c) \/ DeleteVehicleLock(c) \/ DeleteVehicleLockSchool(c)
         \/ DeleteVehicleCheck(c) \/ DeleteVehicleCount(c) \/ DeleteVehicleWrite(c)
         \/ SetDefaultVehicleBegin(c) \/ SetDefaultVehicleLock(c)
         \/ SetDefaultVehicleCheck(c) \/ SetDefaultVehicleWrite(c)
         \/ CreateSchoolWrite(c)
         \/ DeleteSchoolBegin(c) \/ DeleteSchoolRead(c) \/ DeleteSchoolMark(c)
         \/ DeleteSchoolWrite(c)
         \/ ReconcileOwned(c) \/ ReconcileStored(c) \/ ReconcileRepair(c)
  PROVE  Steady(c)
<1>1. CASE \/ CreateVehicleBegin(c) \/ DeleteVehicleBegin(c) \/ SetDefaultVehicleBegin(c)
           \/ DeleteSchoolBegin(c)
  BY <1>1, Received DEF CreateVehicleBegin, DeleteVehicleBegin, SetDefaultVehicleBegin,
                        DeleteSchoolBegin
<1>2. CASE \/ CreateVehicleLock(c) \/ DeleteVehicleLock(c) \/ DeleteVehicleLockSchool(c)
           \/ SetDefaultVehicleLock(c) \/ DeleteSchoolMark(c)
  BY <1>2, Took DEF CreateVehicleLock, DeleteVehicleLock, DeleteVehicleLockSchool,
                    SetDefaultVehicleLock, DeleteSchoolMark, At
<1>3. CASE \/ CreateVehicleCount(c) \/ DeleteVehicleCheck(c) \/ DeleteVehicleCount(c)
           \/ SetDefaultVehicleCheck(c) \/ DeleteSchoolRead(c) \/ ReconcileOwned(c)
           \/ ReconcileStored(c)
  BY <1>3, Looked, Ended DEF CreateVehicleCount, DeleteVehicleCheck, DeleteVehicleCount,
     SetDefaultVehicleCheck, DeleteSchoolRead, ReconcileOwned, ReconcileStored, Reconciles, At
<1>4. CASE \/ CreateVehicleWrite(c) \/ DeleteVehicleWrite(c) \/ SetDefaultVehicleWrite(c)
           \/ ReconcileRepair(c)
  BY <1>4, Ended DEF CreateVehicleWrite, DeleteVehicleWrite, SetDefaultVehicleWrite,
                     ReconcileRepair
<1>5. CASE CreateSchoolWrite(c)
  <2>1. ~Idle(c) /\ (Finish(c) \/ (Goto(c, "owned", None) /\ UNCHANGED locked))
    BY <1>5 DEF CreateSchoolWrite, At
  <2>2. QED
    BY <2>1, Ended, WentOn DEF Steady, FleetInv, Typed
<1>6. CASE DeleteSchoolWrite(c)
  <2> DEFINE t == Req(c).school
  <2>1. /\ At(c, "deleteSchool", "write") /\ ~Idle(c) /\ Req(c).op = "deleteSchool"
        /\ Goto(c, "owned", None) /\ locked' = [locked EXCEPT ![t] = None]
    BY <1>6 DEF DeleteSchoolWrite, At, Req
  <2>2. t \in Schools /\ locked[t] = c
    BY <2>1, OwnRequest, RequestShapes DEF FleetInv, Own, Closing
  <2>3. QED
    BY <2>1, <2>2, WentOn DEF Steady, FleetInv, Typed
<1>7. QED
  BY <1>1, <1>2, <1>3, <1>4, <1>5, <1>6

LEMMA StepIsSteady ==
  ASSUME FleetInv, NEW c \in Clients, Step(c) \/ Fail(c)
  PROVE  Steady(c)
<1>1. CASE FleetStep(c)
  BY <1>1, SpecialSteady, GentleFleetSteps DEF FleetStep, Calm
<1>2. CASE SchoolStep(c)
  BY <1>2, SpecialSteady, GentleSchoolSteps DEF SchoolStep, Calm
<1>3. CASE CourseStep(c) \/ BookingStep(c) \/ PeopleStep(c)
  BY <1>3, CourseSteps, BookingSteps, PeopleSteps DEF Calm
<1>4. CASE Fail(c)
  BY <1>4, Ended DEF Fail
<1>5. QED
  BY <1>1, <1>2, <1>3, <1>4 DEF Step

(* ------------------------------------------------------------- the theorems *)
LEMMA FleetStepKeeps ==
  ASSUME FleetInv, NEW c \in Clients, FleetStep(c) \/ SchoolStep(c)
  PROVE  FleetInv'
<1>1. CASE \/ UpdateVehicleBegin(c) \/ UpdateVehicleCheck(c) \/ UpdateVehicleWrite(c)
           \/ UpdateVehicleRetry(c)
           \/ VehicleStatusBegin(c) \/ VehicleStatusWrite(c)
           \/ ListVehiclesBegin(c) \/ ListVehiclesRepair(c) \/ ListVehiclesEnd(c)
  BY <1>1, GentleFleetSteps, CalmKeeps
<1>2. CASE CreateVehicleBegin(c) \/ CreateVehicleLock(c) \/ CreateVehicleCount(c)
  BY <1>2, AddingSteps
<1>3. CASE CreateVehicleWrite(c)
  BY <1>3, AddingWrite
<1>4. CASE \/ DeleteVehicleBegin(c) \/ DeleteVehicleLock(c) \/ DeleteVehicleLockSchool(c)
           \/ DeleteVehicleCheck(c) \/ DeleteVehicleCount(c)
  BY <1>4, RetiringSteps
<1>5. CASE DeleteVehicleWrite(c)
  BY <1>5, RetiringWrite
<1>6. CASE \/ SetDefaultVehicleBegin(c) \/ SetDefaultVehicleLock(c)
           \/ SetDefaultVehicleCheck(c)
  BY <1>6, ChoosingSteps
<1>7. CASE SetDefaultVehicleWrite(c)
  BY <1>7, ChoosingWrite
<1>8. CASE \/ CreateSchoolBegin(c)
           \/ SetDefaultSchoolBegin(c) \/ SetDefaultSchoolWrite(c)
           \/ UpdateSchoolBegin(c) \/ UpdateSchoolWrite(c) \/ ReadDefaultBegin(c)
  BY <1>8, GentleSchoolSteps, CalmKeeps
<1>9. CASE CreateSchoolWrite(c)
  BY <1>9, OpeningSchool
<1>10. CASE \/ DeleteSchoolBegin(c) \/ DeleteSchoolRead(c) \/ DeleteSchoolMark(c)
            \/ ReconcileOwned(c) \/ ReconcileStored(c) \/ ReconcileRepair(c)
  BY <1>10, SchoolSteps
<1>11. CASE DeleteSchoolWrite(c)
  BY <1>11, ClosingSchool
<1>12. QED
  BY <1>1, <1>2, <1>3, <1>4, <1>5, <1>6, <1>7, <1>8, <1>9, <1>10, <1>11
  DEF FleetStep, SchoolStep

LEMMA FleetInvInit == Init => FleetInv
<1> SUFFICES ASSUME Init PROVE FleetInv
  OBVIOUS
<1>1. PICK o \in Openings : schools = o.schools /\ vehicles = o.vehicles /\ pending = o.pending
  BY DEF Init
<1>2. locked = [x \in Rows |-> None] /\ handlers = [c \in Clients |-> None]
  BY DEF Init
<1>3. Typed
  BY <1>1, <1>2, OpeningsAssumption DEF Typed, Handler
<1>4. Placed
  BY <1>1, OpeningsAssumption DEF Placed, Live
<1>5. DefaultVehicleIsLive /\ FleetHasDefault
  <2> SUFFICES ASSUME NEW s \in Schools
               PROVE  IF FleetOf(s) = {} THEN schools[s].vehicle = None
                                         ELSE schools[s].vehicle \in FleetOf(s)
    BY OfficeAssumption DEF DefaultVehicleIsLive, FleetHasDefault, FleetOf, Rows
  <2>1. FleetOf(s) = {v \in Vehicles : /\ o.vehicles[v].state = "live"
                                       /\ o.vehicles[v].school = s}
    BY <1>1 DEF FleetOf, Live
  <2>2. QED
    BY <1>1, <2>1, OpeningsAssumption
<1>6. \A c \in Clients : Own(c)
  BY <1>2 DEF Own, Adding, Retiring, Choosing, Closing, At, Idle
<1>7. QED
  BY <1>3, <1>4, <1>5, <1>6 DEF FleetInv

LEMMA FleetInvNext == FleetInv /\ [Next]_vars => FleetInv'
<1> SUFFICES ASSUME FleetInv, [Next]_vars PROVE FleetInv'
  OBVIOUS
<1>1. ASSUME Same, UNCHANGED control PROVE FleetInv'
  <2>1. Typed' /\ Placed' /\ DefaultVehicleIsLive' /\ FleetHasDefault'
    BY <1>1 DEF Same, control, FleetInv, Typed, Placed, DefaultVehicleIsLive,
                FleetHasDefault, FleetOf, Live
  <2>2. \A c \in Clients : Own(c)'
    BY <1>1 DEF Same, control, FleetInv, Own, Adding, Retiring, Choosing, Closing, At, Idle,
                Req, Saw, FleetOf, Live
  <2>3. QED
    BY <2>1, <2>2 DEF FleetInv
<1>2. CASE Tick \/ UNCHANGED vars
  BY <1>1, <1>2 DEF Tick, vars, tables, fleet, Same
<1>3. ASSUME NEW c \in Clients, Step(c) \/ Fail(c) PROVE FleetInv'
  <2>1. CASE FleetStep(c) \/ SchoolStep(c)
    BY <2>1, FleetStepKeeps
  <2>2. CASE CourseStep(c) \/ BookingStep(c) \/ PeopleStep(c)
    BY <2>2, CourseSteps, BookingSteps, PeopleSteps, CalmKeeps
  <2>3. CASE Fail(c)
    BY <2>3, CalmEnd, CalmKeeps DEF Fail, Same, tables, fleet
  <2>4. QED
    BY <1>3, <2>1, <2>2, <2>3 DEF Step
<1>4. QED
  BY <1>2, <1>3 DEF Next

\* Retiring, adding and choosing vehicles, by any number of handlers at once,
\* never leaves a school with a default vehicle that is retired or of another
\* school.
THEOREM DefaultVehicle == Spec => []DefaultVehicleIsLive
<1>1. FleetInv => DefaultVehicleIsLive
  BY DEF FleetInv
<1>2. QED
  BY <1>1, FleetInvInit, FleetInvNext, PTL DEF Spec

\* Nor does it leave a school that has vehicles without a default one.
THEOREM FleetKeepsDefault == Spec => []FleetHasDefault
<1>1. FleetInv => FleetHasDefault
  BY DEF FleetInv
<1>2. QED
  BY <1>1, FleetInvInit, FleetInvNext, PTL DEF Spec
=============================================================================
