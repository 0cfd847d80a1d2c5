-------------------------------- MODULE Fleet --------------------------------
(***************************************************************************)
(* Vehicles (services/vehicle) and driving schools (services/driving-      *)
(* school, services/oskContext): the fleet of a school, its default        *)
(* vehicle, and the default school of a manager.                           *)
(***************************************************************************)
EXTENDS Office

FleetRequests ==
  [op : {"createVehicle"}, actor : Managers, school : Schools, vehicle : Vehicles,
   types : SUBSET Types]
  \cup [op : {"updateVehicle"}, actor : Managers, vehicle : Vehicles,
        types : Opt(SUBSET Types)]
  \cup [op : {"vehicleStatus"}, actor : Managers, vehicle : Vehicles,
        available : BOOLEAN, until : Null(Nat)]
  \cup [op : {"deleteVehicle"}, actor : Managers, vehicle : Vehicles]
  \cup [op : {"listVehicles"}, actor : Managers, school : Schools]
SchoolRequests ==
  [op : {"createSchool", "deleteSchool", "setDefaultSchool"}, actor : Managers,
   school : Schools]
  \cup [op : {"updateSchool"}, actor : Managers, school : Schools,
        kinds : Opt(SUBSET {"PRACTICE", "THEORY"})]
  \cup [op : {"setDefaultVehicle"}, actor : Managers, school : Schools,
        vehicle : Vehicles]
  \cup [op : {"readDefault"}, actor : Managers]

FleetOf(s) == {v \in Vehicles : Live(vehicles[v]) /\ vehicles[v].school = s}
OwnedBy(m) == {s \in Schools : Owns(m, s)}
Earliest(S) == CHOOSE s \in S : \A t \in S : schools[s].since <= schools[t].since

\* loadActiveVehicleForOwnerOrThrow
MayChange(m, v) == Live(vehicles[v]) /\ Owns(m, vehicles[v].school)

\* A temporary unavailability that is over on the given day.
Expired(row, day) == ~row.available /\ row.until # None /\ row.until < day
Repaired(row) == [row EXCEPT !.available = TRUE, !.until = None]

\* Lessons and drives the vehicle still has to serve.
Booked(v) ==
  \E b \in Bookings :
    /\ bookings[b].vehicle = v
    /\ bookings[b].kind \in {"LESSON", "DRIVE"}
    /\ Upcoming(bookings[b])

(* ------------------------------------------------------- adding vehicles -- *)
CreateVehicleBegin(c) ==
  \E r \in pending :
    /\ r.op = "createVehicle"
    /\ Owns(r.actor, r.school)
    /\ vehicles[r.vehicle].state = "free"     \* assertVehicleRegistrationUnique
    /\ Receive(c, r, "lock", None)

CreateVehicleLock(c) ==
  At(c, "createVehicle", "lock") /\ Take(c, Req(c).school, "count", None)

CreateVehicleCount(c) ==
  At(c, "createVehicle", "count") /\ Look(c, "write", FleetOf(Req(c).school) = {})

\* The first vehicle of a school becomes its default.
CreateVehicleWrite(c) ==
  LET r == Req(c)
  IN /\ At(c, "createVehicle", "write")
     /\ vehicles[r.vehicle].state = "free"    \* unique (school, registration)
     /\ vehicles' = [vehicles EXCEPT ![r.vehicle] =
          [state |-> "live", school |-> r.school, types |-> r.types,
           available |-> TRUE, until |-> None]]
     /\ schools' = IF Saw(c) THEN [schools EXCEPT ![r.school].vehicle = r.vehicle]
                             ELSE schools
     /\ Finish(c)
     /\ UNCHANGED <<defaultOsk, teaching, people>>

(* ----------------------------------------------------- changing vehicles -- *)
UpdateVehicleBegin(c) ==
  \E r \in pending :
    /\ r.op = "updateVehicle"
    /\ MayChange(r.actor, r.vehicle)
    /\ Receive(c, r, "begin", None)

\* Live lessons and drives with the vehicle in one of the given categories.
UsesCategory(v, removed) ==
  \E b \in Bookings :
    /\ bookings[b].vehicle = v
    /\ bookings[b].kind \in {"LESSON", "DRIVE"}
    /\ Upcoming(bookings[b])
    /\ bookings[b].course # None
    /\ courses[bookings[b].course].type \in removed

RemovedTypes(r) ==
  IF r.types = Keep THEN {} ELSE vehicles[r.vehicle].types \ r.types

\* assertVehicleCategoriesCanChange, in the snapshot of the transaction.
UpdateVehicleCheck(c) ==
  LET r == Req(c)
  IN /\ At(c, "updateVehicle", "begin")
     /\ ~UsesCategory(r.vehicle, RemovedTypes(r))
     /\ Look(c, "write", vehicles[r.vehicle])

\* Tried again when the vehicle was changed since the snapshot, or a lesson
\* that read it was booked in a category the change removes.
OwnRowOnly(c) == Saw(c) # vehicles[Req(c).vehicle]   \* mutant
UpdateVehicleStale(c) ==
  LET r == Req(c)
  IN Saw(c) # vehicles[r.vehicle] \/ UsesCategory(r.vehicle, RemovedTypes(r))

UpdateVehicleWrite(c) ==
  LET r == Req(c)
  IN /\ At(c, "updateVehicle", "write")
     /\ Free(c, {r.vehicle})
     /\ ~UpdateVehicleStale(c)
     /\ vehicles' = IF r.types = Keep THEN vehicles
                    ELSE [vehicles EXCEPT ![r.vehicle].types = r.types]
     /\ Finish(c)
     /\ UNCHANGED <<schools, defaultOsk, teaching, people>>

UpdateVehicleRetry(c) ==
  /\ At(c, "updateVehicle", "write")
  /\ UpdateVehicleStale(c)
  /\ Look(c, "begin", None)

VehicleStatusBegin(c) ==
  \E r \in pending :
    /\ r.op = "vehicleStatus"
    /\ MayChange(r.actor, r.vehicle)
    /\ Receive(c, r, "write", None)

VehicleStatusWrite(c) ==
  LET r == Req(c)
  IN /\ At(c, "vehicleStatus", "write")
     /\ Free(c, {r.vehicle})
     /\ vehicles' = [vehicles EXCEPT ![r.vehicle].available = r.available,
                                     ![r.vehicle].until = IF r.available THEN None ELSE r.until]
     /\ Finish(c)
     /\ UNCHANGED <<schools, defaultOsk, teaching, people>>

(* The list repairs, one row at a time, the unavailabilities it read as    *)
(* over; getVehicleByIdForUser does the same to one row.                   *)
ListVehiclesBegin(c) ==
  \E r \in pending :
    /\ r.op = "listVehicles"
    /\ Owns(r.actor, r.school)
    /\ Receive(c, r, "repair", {v \in FleetOf(r.school) : Expired(vehicles[v], UtcDay)})

ListVehiclesRepair(c) ==
  /\ At(c, "listVehicles", "repair")
  /\ \E v \in Saw(c) :
       /\ Free(c, {v})
       /\ vehicles' = [vehicles EXCEPT ![v] = Repaired(@)]
       /\ Goto(c, "repair", Saw(c) \ {v})
  /\ UNCHANGED <<schools, defaultOsk, teaching, people, locked, clock>>

ListVehiclesEnd(c) ==
  At(c, "listVehicles", "repair") /\ Saw(c) = {} /\ Finish(c) /\ UNCHANGED tables

(* ----------------------------------------------------- retiring vehicles -- *)
DeleteVehicleBegin(c) ==
  \E r \in pending : r.op = "deleteVehicle" /\ Receive(c, r, "lock", None)

NoVehicleLock(c) ==   \* mutant
  At(c, "deleteVehicle", "lock") /\ Look(c, "school", None)
DeleteVehicleLock(c) ==
  At(c, "deleteVehicle", "lock") /\ Take(c, Req(c).vehicle, "school", None)

\* findUnique, then the lock on the school of the vehicle found.
NoSchoolLock(c) ==   \* mutant
  At(c, "deleteVehicle", "school") /\ Look(c, "check", None)
DeleteVehicleLockSchool(c) ==
  /\ At(c, "deleteVehicle", "school")
  /\ vehicles[Req(c).vehicle].school # None
  /\ Take(c, vehicles[Req(c).vehicle].school, "check", None)

\* A vehicle already retired is reported as deleted.  The default vehicle may
\* go only as the last of its school.
DeleteVehicleCheck(c) ==
  LET v == Req(c).vehicle
      s == vehicles[v].school
      isDefault == schools[s].vehicle = v
  IN /\ At(c, "deleteVehicle", "check")
     /\ Owns(Req(c).actor, s)
     /\ IF Live(vehicles[v])
        THEN /\ isDefault => FleetOf(s) = {v}
             /\ Look(c, "count", isDefault)
        ELSE Finish(c) /\ UNCHANGED tables

\* getVehiclesWithUpcomingLessons
DeleteVehicleCount(c) ==
  /\ At(c, "deleteVehicle", "count")
  /\ ~Booked(Req(c).vehicle)
  /\ Look(c, "write", Saw(c))

DeleteVehicleWrite(c) ==
  LET v == Req(c).vehicle
  IN /\ At(c, "deleteVehicle", "write")
     /\ schools' = IF Saw(c) THEN [schools EXCEPT ![vehicles[v].school].vehicle = None]
                             ELSE schools
     /\ vehicles' = [vehicles EXCEPT ![v].state = "gone"]
     /\ Finish(c)
     /\ UNCHANGED <<defaultOsk, teaching, people>>

SetDefaultVehicleBegin(c) ==
  \E r \in pending :
    /\ r.op = "setDefaultVehicle"
    /\ Owns(r.actor, r.school)
    /\ Receive(c, r, "lock", None)

ChoosesUnlocked(c) ==   \* mutant
  At(c, "setDefaultVehicle", "lock") /\ Look(c, "check", None)
SetDefaultVehicleLock(c) ==
  At(c, "setDefaultVehicle", "lock") /\ Take(c, Req(c).vehicle, "check", None)

SetDefaultVehicleCheck(c) ==
  /\ At(c, "setDefaultVehicle", "check")
  /\ Live(vehicles[Req(c).vehicle])
  /\ vehicles[Req(c).vehicle].school = Req(c).school
  /\ Look(c, "write", None)

SetDefaultVehicleWrite(c) ==
  LET r == Req(c)
  IN /\ At(c, "setDefaultVehicle", "write")
     /\ Free(c, {r.school})
     /\ schools' = [schools EXCEPT ![r.school].vehicle = r.vehicle]
     /\ Finish(c)
     /\ UNCHANGED <<vehicles, defaultOsk, teaching, people>>

(* --------------------------------------------------------------- schools -- *)
NextSince == Cardinality({s \in Schools : schools[s].state # "free"})

\* Whether it is the first school is counted before the transaction.
CreateSchoolBegin(c) ==
  \E r \in pending :
    /\ r.op = "createSchool"
    /\ schools[r.school].state = "free"
    /\ Receive(c, r, "write", OwnedBy(r.actor) = {})

CreateSchoolWrite(c) ==
  LET r == Req(c)
      first == Saw(c)
  IN /\ At(c, "createSchool", "write")
     /\ schools[r.school].state = "free"
     /\ schools' = [schools EXCEPT ![r.school] =
          [state |-> "live", owner |-> r.actor, vehicle |-> None, kinds |-> {},
           since |-> NextSince]]
     /\ IF first
        THEN defaultOsk' = [defaultOsk EXCEPT ![r.actor] = r.school] /\ Finish(c)
        ELSE Goto(c, "owned", None) /\ UNCHANGED <<defaultOsk, locked, clock>>
     /\ UNCHANGED <<vehicles, teaching, people>>

SetDefaultSchoolBegin(c) ==
  \E r \in pending :
    /\ r.op = "setDefaultSchool"
    /\ Owns(r.actor, r.school)
    /\ Receive(c, r, "write", None)

SetDefaultSchoolWrite(c) ==
  LET r == Req(c)
  IN /\ At(c, "setDefaultSchool", "write")
     /\ defaultOsk' = [defaultOsk EXCEPT ![r.actor] = r.school]
     /\ Finish(c)
     /\ UNCHANGED <<schools, vehicles, teaching, people>>

UpdateSchoolBegin(c) ==
  \E r \in pending :
    /\ r.op = "updateSchool"
    /\ Owns(r.actor, r.school)
    /\ Receive(c, r, "write", None)

\* Scalars of the school and its settings; the settings are a row of their own.
UpdateSchoolWrite(c) ==
  LET r == Req(c)
  IN /\ At(c, "updateSchool", "write")
     /\ Free(c, {r.school})
     /\ schools' = IF r.kinds = Keep THEN schools
                   ELSE [schools EXCEPT ![r.school].kinds = r.kinds]
     /\ Finish(c)
     /\ UNCHANGED <<vehicles, defaultOsk, teaching, people>>

DeleteSchoolBegin(c) ==
  \E r \in pending :
    /\ r.op = "deleteSchool"
    /\ Owns(r.actor, r.school)
    /\ Receive(c, r, "read", None)

DeleteSchoolRead(c) ==
  /\ At(c, "deleteSchool", "read")
  /\ Look(c, "mark", defaultOsk[Req(c).actor] = Req(c).school)

\* The update of deletedAt locks the row; then the heir is looked for.
DeleteSchoolMark(c) ==
  LET r == Req(c)
      heirs == OwnedBy(r.actor) \ {r.school}
      heir == IF heirs = {} THEN None ELSE Earliest(heirs)
  IN /\ At(c, "deleteSchool", "mark")
     /\ Take(c, r.school, "write", [wasDefault |-> Saw(c), heir |-> heir])

DeleteSchoolWrite(c) ==
  LET r == Req(c)
  IN /\ At(c, "deleteSchool", "write")
     /\ schools' = [schools EXCEPT ![r.school].state = "gone"]
     /\ defaultOsk' = IF Saw(c).wasDefault
                      THEN [defaultOsk EXCEPT ![r.actor] = Saw(c).heir]
                      ELSE defaultOsk
     /\ Goto(c, "owned", None)
     /\ locked' = [locked EXCEPT ![r.school] = None]
     /\ UNCHANGED <<vehicles, teaching, people, clock>>

ReadDefaultBegin(c) ==
  \E r \in pending : r.op = "readDefault" /\ Receive(c, r, "owned", None)

(* reconcileUserDefaultOskId, at the end of a creation or a deletion and   *)
(* whenever the default is read: two reads, then a repair if they disagree.*)
Reconciles(c, step) ==
  \E op \in {"createSchool", "deleteSchool", "readDefault"} : At(c, op, step)

ReconcileOwned(c) ==
  Reconciles(c, "owned") /\ Look(c, "stored", OwnedBy(Req(c).actor))

\* storedDefaultId against the list; nothing is written when both are empty.
TrustsStored(c) ==   \* mutant
  LET stored == defaultOsk[Req(c).actor]
  IN /\ Reconciles(c, "stored")
     /\ IF stored # None \/ Saw(c) = {}
        THEN Finish(c) /\ UNCHANGED tables
        ELSE Look(c, "repair", Earliest(Saw(c)))
ReconcileStored(c) ==
  LET stored == defaultOsk[Req(c).actor]
      valid == stored \in Saw(c) \/ (Saw(c) = {} /\ stored = None)
  IN /\ Reconciles(c, "stored")
     /\ IF valid
        THEN Finish(c) /\ UNCHANGED tables
        ELSE Look(c, "repair", IF Saw(c) = {} THEN None ELSE Earliest(Saw(c)))

ReconcileRepair(c) ==
  /\ Reconciles(c, "repair")
  /\ defaultOsk' = [defaultOsk EXCEPT ![Req(c).actor] = Saw(c)]
  /\ Finish(c)
  /\ UNCHANGED <<schools, vehicles, teaching, people>>

FleetStep(c) ==
  \/ CreateVehicleBegin(c) \/ CreateVehicleLock(c) \/ CreateVehicleCount(c)
  \/ CreateVehicleWrite(c)
  \/ UpdateVehicleBegin(c) \/ UpdateVehicleCheck(c) \/ UpdateVehicleWrite(c)
  \/ UpdateVehicleRetry(c)
  \/ VehicleStatusBegin(c) \/ VehicleStatusWrite(c)
  \/ ListVehiclesBegin(c) \/ ListVehiclesRepair(c) \/ ListVehiclesEnd(c)
  \/ DeleteVehicleBegin(c) \/ DeleteVehicleLock(c) \/ DeleteVehicleLockSchool(c)
  \/ DeleteVehicleCheck(c) \/ DeleteVehicleCount(c) \/ DeleteVehicleWrite(c)
  \/ SetDefaultVehicleBegin(c) \/ SetDefaultVehicleLock(c)
  \/ SetDefaultVehicleCheck(c) \/ SetDefaultVehicleWrite(c)

SchoolStep(c) ==
  \/ CreateSchoolBegin(c) \/ CreateSchoolWrite(c)
  \/ SetDefaultSchoolBegin(c) \/ SetDefaultSchoolWrite(c)
  \/ UpdateSchoolBegin(c) \/ UpdateSchoolWrite(c)
  \/ DeleteSchoolBegin(c) \/ DeleteSchoolRead(c) \/ DeleteSchoolMark(c)
  \/ DeleteSchoolWrite(c)
  \/ ReadDefaultBegin(c)
  \/ ReconcileOwned(c) \/ ReconcileStored(c) \/ ReconcileRepair(c)
=============================================================================
