-------------------------- MODULE DetectionProofs --------------------------
(***************************************************************************)
(* Proofs about Detection, for any numbers of writers, workers, keys and   *)
(* logins, any window, threshold and batch size, with failures and sweeps. *)
(***************************************************************************)
EXTENDS Detection, FiniteSetTheorems, TLAPS

USE DEF tables, writing

LEMMA ReportsAreLogins ==
  ASSUME NEW e \in Reports
  PROVE  /\ e.at \in Times /\ e.at \in Int /\ e.at >= 0
         /\ e.id \in Nat /\ e.id > 0 /\ e.keys \subseteq Keys
         /\ e.keys \subseteq e.matches
BY ReportAssumption, SizeAssumption DEF Login, Times

(***************************************************************************)
(* Types.                                                                  *)
(***************************************************************************)
LEMMA QueueType ==
  ASSUME NEW s \in State \cup {None}, NEW e \in Reports,
         s # None => s.done <= s.queued
  PROVE  /\ Queue(s, e) \in State /\ Queue(s, e) # None
         /\ Queue(s, e).done < Queue(s, e).queued
<1>1. e.at \in Times /\ e.at - 1 \in Times \cup {-1} /\ 0 \in Nat /\ 1 \in Nat
  BY ReportsAreLogins, SizeAssumption DEF Times
<1>2. CASE s = None
  BY <1>1, <1>2, NoneAssumption DEF Queue, NewState, State, Start, Position
<1>3. CASE s # None
  <2> DEFINE b == [s EXCEPT !.queued = @ + 1, !.active = e.at]
  <2>0. s \in State /\ s.queued \in Nat /\ s.queued + 1 \in Nat
    BY <1>3 DEF State
  <2>1. b \in State /\ b.done = s.done /\ b.queued = s.queued + 1
    BY <1>1, <2>0 DEF State
  <2>2. b.done < b.queued
    BY <1>3, <2>0, <2>1 DEF State
  <2> HIDE DEF b
  <2>3. /\ Rewind(b, e) \in State /\ Rewind(b, e).done = b.done
        /\ Rewind(b, e).queued = b.queued
    BY <1>1, <2>1 DEF Rewind, State, Position
  <2>4. Queue(s, e) = IF Late(s, e) THEN Rewind(b, e) ELSE b
    BY <1>3 DEF Queue, b
  <2>5. QED
    BY <2>1, <2>2, <2>3, <2>4, NoneAssumption
<1>4. QED
  BY <1>2, <1>3

\* What one more login examined leaves of a worker's transaction.
Continues(r, j, e) ==
  /\ r \in Job /\ r.key = j.key /\ r.more = j.more /\ r.todo = j.todo \ {e}
  /\ r.last = [at |-> e.at, id |-> e.id]
  /\ \/ r.raised = j.raised
     \/ /\ r.raised = j.raised \cup {[key |-> j.key, at |-> e.at]}
        /\ NearAlarms(e, j.key, j.raised) = {}

LEMMA VerdictType ==
  ASSUME TypeOK, NEW j \in Job, NEW e \in j.todo, NEW r \in Verdicts(j, e)
  PROVE  Continues(r, j, e)
<1>1. /\ e \in Login /\ e.at \in Times /\ e.at \in Nat /\ e.id \in Nat /\ Window \in Nat
      /\ e.at + Window \in Nat
  BY SizeAssumption DEF Job, Login, Times
<1>2. [at |-> e.at, id |-> e.id] \in Position /\ [key |-> j.key, at |-> e.at] \in Alarm
  BY <1>1 DEF Position, Alarm, Job
<1>3. /\ Examined(j, e) \in Job /\ Examined(j, e).key = j.key /\ Examined(j, e).more = j.more
      /\ Examined(j, e).todo = j.todo \ {e} /\ Examined(j, e).raised = j.raised
      /\ Examined(j, e).last = [at |-> e.at, id |-> e.id]
  BY <1>2 DEF Examined, Job
<1>4. CASE r = Examined(j, e)
  BY <1>3, <1>4 DEF Continues
<1>5. CASE r = Raised(j, e) /\ NearAlarms(e, j.key, j.raised) = {}
  <2>1. /\ Raised(j, e) \in Job /\ Raised(j, e).key = j.key /\ Raised(j, e).more = j.more
        /\ Raised(j, e).todo = j.todo \ {e}
        /\ Raised(j, e).last = [at |-> e.at, id |-> e.id]
        /\ Raised(j, e).raised = j.raised \cup {[key |-> j.key, at |-> e.at]}
    BY <1>1, <1>2, <1>3 DEF Raised, Job
  <2>2. QED
    BY <1>5, <2>1 DEF Continues
<1>6. ASSUME NEW a \in NearAlarms(e, j.key, j.raised), r = Suppressed(j, e, a)
      PROVE  /\ r \in Job /\ r.key = j.key /\ r.more = j.more /\ r.todo = j.todo \ {e}
             /\ r.last = [at |-> e.at, id |-> e.id] /\ r.raised = j.raised
  <2>1. a \in Alarm
    BY DEF NearAlarms, TypeOK, Job
  <2>2. a.at + Window \in Nat
    BY <2>1, SizeAssumption DEF Alarm, Times
  <2>3. QED
    BY <1>3, <1>6, <2>2 DEF Suppressed, Job
<1>7. CASE r = Examined(j, e) \/ (r = Raised(j, e) /\ NearAlarms(e, j.key, j.raised) = {})
  BY <1>4, <1>5, <1>7 DEF Continues
<1>8. CASE \E a \in NearAlarms(e, j.key, j.raised) : r = Suppressed(j, e, a)
  BY <1>6, <1>8 DEF Continues
<1>9. QED
  BY <1>7, <1>8 DEF Verdicts

\* The next step of a worker's transaction, with the login it examines.
LEMMA ExamineStep ==
  ASSUME TypeOK, NEW v \in Workers, Examine(v)
  PROVE  /\ job[v] \in Job /\ job'[v] \in Job
         /\ \A u \in Workers : u # v => job'[u] = job[u]
         /\ \E e \in job[v].todo :
              /\ \A f \in job[v].todo : f = e \/ After(f, e)
              /\ Continues(job'[v], job[v], e)
<1> DEFINE j == job[v]
<1>1. j \in Job
  BY DEF Examine, TypeOK
<1>2. PICK e \in j.todo : /\ \A f \in j.todo : f = e \/ After(f, e)
                          /\ \E r \in Verdicts(j, e) : job' = [job EXCEPT ![v] = r]
  BY DEF Examine
<1> HIDE DEF j
<1>3. PICK r \in Verdicts(j, e) : job' = [job EXCEPT ![v] = r]
  BY <1>2
<1>4. job'[v] = r /\ \A u \in Workers : u # v => job'[u] = job[u]
  BY <1>3 DEF TypeOK
<1>5. Continues(r, j, e)
  BY <1>1, VerdictType
<1>6. r \in Job
  BY <1>5 DEF Continues
<1>7. QED
  BY <1>1, <1>2, <1>4, <1>5, <1>6 DEF j

LEMMA BatchType ==
  ASSUME TypeOK, NEW k \in Keys
  PROVE  Batch(k) \subseteq Reports /\ Batch(k) \subseteq Login /\ Batch(k) \subseteq Fresh(k)
BY ReportAssumption DEF Batch, Fresh, Of, TypeOK

LEMMA FinishType ==
  ASSUME TypeOK, NEW v \in Workers, Finish(v), states[job[v].key] # None
  PROVE  /\ states' \in [Keys -> State \cup {None}]
         /\ \A k \in Keys : states'[k] # None => states'[k].done <= states'[k].queued
         /\ alarms' \subseteq Alarm
<1> DEFINE j == job[v]
           s == states[j.key]
           t == [s EXCEPT !.cursor = NewCursor(j, s), !.next = j.next, !.done = NewDone(j, s)]
<1>1. j \in Job /\ j.key \in Keys /\ s \in State /\ s.done <= s.queued
  BY DEF Finish, TypeOK, Job
<1>2. states' = [states EXCEPT ![j.key] = t] /\ alarms' = alarms \cup j.raised
  BY DEF Finish
<1> HIDE DEF j, s
<1>3. t \in State /\ t.done <= t.queued
  <2>1. NewCursor(j, s) \in Position /\ j.next \in Nat \cup {None}
    BY <1>1 DEF NewCursor, Job
  <2>2. NewDone(j, s) \in Nat /\ NewDone(j, s) <= s.queued
    BY <1>1 DEF NewDone, State
  <2>3. QED
    BY <1>1, <2>1, <2>2 DEF State
<1>4. alarms' \subseteq Alarm
  BY <1>1, <1>2 DEF TypeOK, Job
<1> HIDE DEF t
<1>5. QED
  BY <1>1, <1>2, <1>3, <1>4 DEF TypeOK

LEMMA StepType ==
  ASSUME TypeOK, JobsOK, [Next]_vars
  PROVE  TypeOK'
<1>1. CASE UNCHANGED vars
  BY <1>1 DEF vars, TypeOK
<1>2. ASSUME NEW w \in Writers, NEW e \in Reports, Receive(w, e)
      PROVE  TypeOK'
  BY <1>2 DEF Receive, TypeOK
<1>3. ASSUME NEW w \in Writers, LockState(w)
      PROVE  TypeOK'
  <2>1. recording[w].keys \subseteq Keys
    BY <1>3, ReportsAreLogins DEF LockState, TypeOK
  <2>2. QED
    BY <1>3, <2>1 DEF LockState, NextKeys, TypeOK
<1>4. ASSUME NEW w \in Writers, Record(w)
      PROVE  TypeOK'
  <2>1. recording[w] \in Reports
    BY <1>4 DEF Record, TypeOK
  <2>2. \A k \in Keys : /\ states'[k] \in State \cup {None}
                        /\ states'[k] # None => states'[k].done <= states'[k].queued
    <3> SUFFICES ASSUME NEW k \in Keys
                 PROVE  /\ states'[k] \in State \cup {None}
                        /\ states'[k] # None => states'[k].done <= states'[k].queued
      OBVIOUS
    <3>1. states[k] \in State \cup {None} /\ (states[k] # None => states[k].done <= states[k].queued)
      BY DEF TypeOK
    <3>2. CASE k \in recording[w].keys
      <4>1. states'[k] = Queue(states[k], recording[w])
        BY <1>4, <3>2 DEF Record
      <4>2. QED
        BY <2>1, <3>1, <4>1, QueueType DEF State
    <3>3. CASE k \notin recording[w].keys
      BY <1>4, <3>1, <3>3 DEF Record
    <3>4. QED
      BY <3>2, <3>3
  <2>3. states' = [k \in Keys |-> states'[k]]
    BY <1>4 DEF Record
  <2>4. QED
    BY <1>4, <2>1, <2>2, <2>3 DEF Record, Done, TypeOK
<1>5. ASSUME NEW w \in Writers, RecordFails(w)
      PROVE  TypeOK'
  BY <1>5, SizeAssumption DEF RecordFails, Done, TypeOK
<1>6. ASSUME NEW v \in Workers, Pick(v)
      PROVE  TypeOK'
  <2>1. PICK k \in Pending :
          job' = [job EXCEPT ![v] =
            [key |-> k, todo |-> Batch(k), more |-> Cardinality(Fresh(k)) > BatchSize,
             last |-> states[k].cursor, next |-> states[k].next, raised |-> {}]]
    BY <1>6 DEF Pick
  <2>2. k \in Keys /\ states[k] \in State
    BY DEF Pending, Waits, TypeOK
  <2>3. [key |-> k, todo |-> Batch(k), more |-> Cardinality(Fresh(k)) > BatchSize,
         last |-> states[k].cursor, next |-> states[k].next, raised |-> {}] \in Job
    BY <2>2, BatchType DEF Job, State
  <2>4. QED
    BY <1>6, <2>1, <2>3 DEF Pick, TypeOK
<1>7. ASSUME NEW v \in Workers, Examine(v)
      PROVE  TypeOK'
  <2>1. job'[v] \in Job /\ \A u \in Workers : u # v => job'[u] = job[u]
    BY <1>7, ExamineStep
  <2>2. job' = [job EXCEPT ![v] = job'[v]]
    BY <1>7 DEF Examine
  <2>3. QED
    BY <1>7, <2>1, <2>2 DEF Examine, TypeOK
<1>8. ASSUME NEW v \in Workers, Finish(v)
      PROVE  TypeOK'
  <2>1. states[job[v].key] # None
    BY <1>8 DEF Finish, JobsOK, JobOK, Waits
  <2>2. QED
    BY <1>8, <2>1, FinishType DEF Finish, TypeOK
<1>9. ASSUME NEW v \in Workers, WorkerFails(v)
      PROVE  TypeOK'
  BY <1>9, SizeAssumption DEF WorkerFails, TypeOK
<1>10. CASE StartSweep
  <2>1. MaxBatches \in Nat /\ MaxBatches > 0
    BY SizeAssumption
  <2>2. sweep' = [phase |-> "rows", left |-> MaxBatches, todo |-> {}, locked |-> {}]
    BY <1>10 DEF StartSweep, Asleep
  <2>3. sweep' \in Sweep /\ sweep'.left > 0
    BY <2>1, <2>2 DEF Sweep
  <2>4. cutoff' \in Times
    BY <1>10 DEF StartSweep
  <2>5. QED
    BY <1>10, <2>3, <2>4 DEF StartSweep, TypeOK
<1>11. CASE DeleteBatch
  <2>1. events' \subseteq events /\ alarms' \subseteq alarms
    BY <1>11 DEF DeleteBatch
  <2>2. \/ sweep' = [sweep EXCEPT !.phase = "states"]
        \/ sweep' = [sweep EXCEPT !.left = @ - 1] /\ sweep.left # 1
    BY <1>11 DEF DeleteBatch
  <2>3. sweep \in Sweep /\ sweep.phase = "rows" /\ sweep.left > 0 /\ MaxBatches \in Nat
    BY <1>11, SizeAssumption DEF DeleteBatch, TypeOK
  <2>4. sweep' \in Sweep /\ (sweep'.phase = "rows" => sweep'.left > 0)
    BY <2>2, <2>3 DEF Sweep
  <2>5. QED
    BY <1>11, <2>1, <2>4 DEF DeleteBatch, TypeOK
<1>12. CASE FindIdle \/ LockIdle
  <2>1. sweep' \in Sweep /\ sweep'.phase = "locking"
    <3>1. sweep \in Sweep /\ {k \in Keys : Idle(k)} \subseteq Keys
      BY DEF TypeOK
    <3>2. CASE FindIdle
      BY <3>1, <3>2 DEF FindIdle, Sweep
    <3>3. CASE LockIdle
      <4>1. PICK k \in sweep.todo :
              sweep' = [sweep EXCEPT !.todo = @ \ {k},
                                     !.locked = IF Idle(k) THEN @ \cup {k} ELSE @]
        BY <3>3 DEF LockIdle
      <4>2. QED
        BY <3>1, <3>3, <4>1 DEF LockIdle, Sweep
    <3>4. QED
      BY <1>12, <3>2, <3>3
  <2>2. QED
    BY <1>12, <2>1 DEF FindIdle, LockIdle, TypeOK
<1>13. CASE Forget
  <2>1. Asleep \in Sweep /\ Asleep.phase # "rows"
    BY SizeAssumption DEF Asleep, Sweep
  <2>2. QED
    BY <1>13, <2>1 DEF Forget, TypeOK
<1>14. CASE SweepFails
  <2>1. Asleep \in Sweep /\ Asleep.phase # "rows"
    BY SizeAssumption DEF Asleep, Sweep
  <2>2. QED
    BY <1>14, <2>1, SizeAssumption DEF SweepFails, TypeOK
<1>15. QED
  BY <1>1, <1>2, <1>3, <1>4, <1>5, <1>6, <1>7, <1>8, <1>9, <1>10, <1>11, <1>12, <1>13, <1>14
     DEF Next, WriterStep, WorkerStep, SweepStep

(***************************************************************************)
(* Locks.                                                                  *)
(***************************************************************************)
LEMMA StepLocks ==
  ASSUME TypeOK, LocksOK, [Next]_vars
  PROVE  LocksOK'
<1>1. CASE UNCHANGED vars
  BY <1>1 DEF vars, LocksOK
<1>2. ASSUME NEW w \in Writers, NEW e \in Reports, Receive(w, e)
      PROVE  LocksOK'
  <2>1. held[w] = {} /\ UNCHANGED <<held, job, sweep>>
    BY <1>2 DEF Receive, LocksOK
  <2>2. \A x \in Writers : x # w => recording'[x] = recording[x]
    BY <1>2 DEF Receive, TypeOK
  <2>3. \A x \in Writers : /\ recording'[x] = None => held[x] = {}
                           /\ recording'[x] # None => held[x] \subseteq recording'[x].keys
    BY <2>1, <2>2 DEF LocksOK
  <2>4. QED
    BY <2>1, <2>2, <2>3 DEF LocksOK
<1>3. ASSUME NEW w \in Writers, LockState(w)
      PROVE  LocksOK'
  <2>1. PICK k \in NextKeys(w) : Free(k) /\ held' = [held EXCEPT ![w] = @ \cup {k}]
    BY <1>3 DEF LockState
  <2>2. k \in recording[w].keys /\ recording[w] # None
    BY <1>3 DEF LockState, NextKeys
  <2>3. k \notin sweep.locked /\ \A v \in Workers : job[v] # None => job[v].key # k
    BY <2>1 DEF Free
  <2>4. held'[w] = held[w] \cup {k} /\ \A x \in Writers : x # w => held'[x] = held[x]
    BY <2>1 DEF TypeOK
  <2>5. UNCHANGED <<recording, job, sweep>>
    BY <1>3 DEF LockState
  <2>6. \A v \in Workers : job[v] # None => \A x \in Writers : job[v].key \notin held'[x]
    BY <2>3, <2>4 DEF LocksOK
  <2>7. \A x \in Writers : /\ recording[x] = None => held'[x] = {}
                           /\ recording[x] # None => held'[x] \subseteq recording[x].keys
                           /\ sweep.locked \cap held'[x] = {}
    BY <2>2, <2>3, <2>4 DEF LocksOK
  <2>8. QED
    BY <2>5, <2>6, <2>7 DEF LocksOK
<1>4. ASSUME NEW w \in Writers, Record(w) \/ RecordFails(w)
      PROVE  LocksOK'
  <2>1. \A x \in Writers : /\ recording'[x] = IF x = w THEN None ELSE recording[x]
                           /\ held'[x] = IF x = w THEN {} ELSE held[x]
    BY <1>4 DEF Record, RecordFails, Done, TypeOK
  <2>2. job' = job /\ sweep' = sweep
    BY <1>4 DEF Record, RecordFails, Done
  <2>3. QED
    BY <2>1, <2>2 DEF LocksOK
<1>5. ASSUME NEW v \in Workers, Pick(v)
      PROVE  LocksOK'
  <2>1. PICK k \in Pending : /\ Free(k)
                             /\ \E r : job' = [job EXCEPT ![v] = r] /\ r.key = k
    BY <1>5 DEF Pick
  <2>2. job'[v].key = k /\ \A u \in Workers \ {v} : job'[u] = job[u]
    BY <2>1 DEF TypeOK
  <2>3. /\ k \notin sweep.locked /\ \A w \in Writers : k \notin held[w]
        /\ \A u \in Workers : job[u] # None => job[u].key # k
    BY <2>1 DEF Free
  <2>4. UNCHANGED <<recording, held, sweep>>
    BY <1>5 DEF Pick
  <2>5. QED
    BY <2>2, <2>3, <2>4 DEF LocksOK
<1>6. ASSUME NEW v \in Workers, Examine(v)
      PROVE  LocksOK'
  <2>1. /\ job'[v].key = job[v].key /\ job[v] # None
        /\ \A u \in Workers : u # v => job'[u] = job[u]
    BY <1>6, ExamineStep DEF Continues, Examine
  <2>2. \A u \in Workers : /\ job'[u] # None => job[u] # None
                           /\ job'[u].key = job[u].key
    BY <2>1
  <2>3. UNCHANGED <<recording, held, sweep>>
    BY <1>6 DEF Examine
  <2>4. QED
    BY <2>2, <2>3 DEF LocksOK
<1>7. ASSUME NEW v \in Workers, Finish(v) \/ WorkerFails(v)
      PROVE  LocksOK'
  <2>1. \A u \in Workers : job'[u] = IF u = v THEN None ELSE job[u]
    BY <1>7 DEF Finish, WorkerFails, TypeOK
  <2>2. UNCHANGED <<recording, held, sweep>>
    BY <1>7 DEF Finish, WorkerFails
  <2>3. QED
    BY <2>1, <2>2 DEF LocksOK
<1>8. CASE LockIdle
  <2>1. PICK k \in sweep.todo :
          /\ Free(k)
          /\ sweep' = [sweep EXCEPT !.todo = @ \ {k},
                                    !.locked = IF Idle(k) THEN @ \cup {k} ELSE @]
    BY <1>8 DEF LockIdle
  <2>2. sweep'.locked \subseteq sweep.locked \cup {k}
    BY <2>1 DEF TypeOK, Sweep
  <2>3. /\ \A w \in Writers : k \notin held[w]
        /\ \A v \in Workers : job[v] # None => job[v].key # k
    BY <2>1 DEF Free
  <2>4. UNCHANGED <<recording, held, job>>
    BY <1>8 DEF LockIdle
  <2>5. QED
    BY <2>2, <2>3, <2>4 DEF LocksOK
<1>9. CASE StartSweep \/ DeleteBatch \/ FindIdle \/ Forget \/ SweepFails
  <2>1. sweep'.locked \subseteq sweep.locked
    <3>1. CASE DeleteBatch
      <4>1. \/ sweep' = [sweep EXCEPT !.phase = "states"]
            \/ sweep' = [sweep EXCEPT !.left = @ - 1]
        BY <3>1 DEF DeleteBatch
      <4>2. QED
        BY <4>1 DEF TypeOK, Sweep
    <3>2. CASE FindIdle
      BY <3>2 DEF FindIdle, TypeOK, Sweep
    <3>3. CASE StartSweep \/ Forget \/ SweepFails
      <4>1. \/ sweep' = [phase |-> "rows", left |-> MaxBatches, todo |-> {}, locked |-> {}]
            \/ sweep' = Asleep
        BY <3>3 DEF StartSweep, Forget, SweepFails, Asleep
      <4>2. QED
        BY <4>1 DEF Asleep
    <3>4. QED
      BY <1>9, <3>1, <3>2, <3>3
  <2>2. UNCHANGED <<recording, held, job>>
    BY <1>9 DEF StartSweep, DeleteBatch, FindIdle, Forget, SweepFails
  <2>3. QED
    BY <2>1, <2>2 DEF LocksOK
<1>10. QED
  BY <1>1, <1>2, <1>3, <1>4, <1>5, <1>6, <1>7, <1>8, <1>9
     DEF Next, WriterStep, WorkerStep, SweepStep

(***************************************************************************)
(* What a worker has loaded.                                               *)
(***************************************************************************)
LEMMA BatchCovers ==
  ASSUME TypeOK, NEW k \in Keys, ~ (Cardinality(Fresh(k)) > BatchSize)
  PROVE  Fresh(k) \subseteq Batch(k)
<1>1. IsFiniteSet(Fresh(k)) /\ Fresh(k) \subseteq Login
  BY ReportAssumption, FS_Subset DEF Fresh, Of, TypeOK
<1>2. SUFFICES ASSUME NEW e \in Fresh(k)
               PROVE  Cardinality({f \in Fresh(k) : After(e, f)}) < BatchSize
  BY DEF Batch
<1> DEFINE before == {f \in Fresh(k) : After(e, f)}
<1>3. before \subseteq Fresh(k) /\ e \notin before
  BY <1>1, SizeAssumption DEF After, Login, Times
<1>4. before # Fresh(k)
  BY <1>2, <1>3
<1>5. /\ Cardinality(before) < Cardinality(Fresh(k)) /\ Cardinality(before) \in Nat
      /\ Cardinality(Fresh(k)) \in Nat
  BY <1>1, <1>3, <1>4, FS_Subset, FS_CardinalityType
<1>6. QED
  BY <1>5, SizeAssumption

LEMMA NewJobOK ==
  ASSUME TypeOK, NEW k \in Pending, NEW j,
         j = [key |-> k, todo |-> Batch(k), more |-> Cardinality(Fresh(k)) > BatchSize,
              last |-> states[k].cursor, next |-> states[k].next, raised |-> {}]
  PROVE  JobOK(j)
<1>1. k \in Keys /\ Waits(j.key) /\ j.last = states[k].cursor /\ j.todo = Batch(k)
  BY DEF Pending
<1>2. \A e \in j.todo : After(e, j.last)
  BY <1>1, BatchType DEF Fresh
<1>3. ASSUME ~ j.more, NEW e \in Announced(j.key), After(e, j.last)
      PROVE  e \in j.todo
  <2>1. e \in Fresh(k)
    BY <1>1, <1>3, ReportsAreLogins DEF Fresh, Announced, Of, TypeOK
  <2>2. ~ (Cardinality(Fresh(k)) > BatchSize)
    BY <1>3
  <2>3. QED
    BY <1>1, <2>1, <2>2, BatchCovers
<1>4. QED
  BY <1>1, <1>2, <1>3 DEF JobOK

\* A transaction that goes on, while nothing it looks at changes.
LEMMA JobKept ==
  ASSUME NEW j, JobOK(j), states'[j.key] = states[j.key],
         \A e \in events' : j.key \in e.keys => e \in events
  PROVE  JobOK(j)'
BY DEF JobOK, Waits, Announced

LEMMA JobGoesOn ==
  ASSUME TypeOK, NEW j \in Job, NEW e \in j.todo, NEW r, JobOK(j), Continues(r, j, e),
         \A f \in j.todo : f = e \/ After(f, e)
  PROVE  JobOK(r)
<1>1. /\ r.key = j.key /\ r.more = j.more /\ r.todo = j.todo \ {e}
      /\ r.last.at = e.at /\ r.last.id = e.id
  BY DEF Continues
<1>2. \A f \in r.todo : After(f, r.last)
  BY <1>1 DEF After
<1>3. ASSUME ~ r.more, NEW f \in Announced(r.key), After(f, r.last)
      PROVE  f \in r.todo
  <2>1. /\ e.at \in Int /\ e.id \in Int /\ f.at \in Int /\ f.id \in Int
        /\ j.last.at \in Int /\ j.last.id \in Int
    BY ReportAssumption, SizeAssumption DEF TypeOK, Announced, Job, Login, Position, Times
  <2>2. After(f, e)
    BY <1>1, <1>3 DEF After
  <2>3. After(e, j.last)
    BY DEF JobOK
  <2>4. After(f, j.last) /\ f # e
    BY <2>1, <2>2, <2>3 DEF After
  <2>5. f \in j.todo
    BY <1>1, <1>3, <2>4 DEF JobOK
  <2>6. QED
    BY <1>1, <2>4, <2>5
<1>4. QED
  BY <1>1, <1>2, <1>3 DEF JobOK

LEMMA StepJobs ==
  ASSUME TypeOK, LocksOK, JobsOK, [Next]_vars
  PROVE  JobsOK'
<1>1. CASE UNCHANGED <<events, states, job>>
  BY <1>1 DEF JobsOK, JobOK, Waits, Announced, After
<1>2. ASSUME NEW w \in Writers, Record(w)
      PROVE  JobsOK'
  <2>1. job' = job
    BY <1>2 DEF Record, Done
  <2>2. SUFFICES ASSUME NEW v \in Workers, job[v] # None
                 PROVE  JobOK(job[v])'
    BY <2>1 DEF JobsOK
  <2>3. job[v] \in Job /\ job[v].key \in Keys /\ JobOK(job[v])
    BY <2>2 DEF TypeOK, Job, JobsOK
  <2>4. job[v].key \notin recording[w].keys
    BY <1>2, <2>2 DEF Record, LocksOK
  <2>5. /\ states'[job[v].key] = states[job[v].key]
        /\ \A e \in events' : job[v].key \in e.keys => e \in events
    BY <1>2, <2>3, <2>4 DEF Record
  <2>6. QED
    BY <2>1, <2>3, <2>5, JobKept
<1>3. ASSUME NEW v \in Workers, Pick(v)
      PROVE  JobsOK'
  <2>1. PICK k \in Pending :
          job' = [job EXCEPT ![v] =
            [key |-> k, todo |-> Batch(k), more |-> Cardinality(Fresh(k)) > BatchSize,
             last |-> states[k].cursor, next |-> states[k].next, raised |-> {}]]
    BY <1>3 DEF Pick
  <2>2. /\ job'[v] = [key |-> k, todo |-> Batch(k), more |-> Cardinality(Fresh(k)) > BatchSize,
                      last |-> states[k].cursor, next |-> states[k].next, raised |-> {}]
        /\ \A u \in Workers : u # v => job'[u] = job[u]
    BY <2>1 DEF TypeOK
  <2>3. JobOK(job'[v])
    BY <2>2, NewJobOK
  <2>4. \A u \in Workers : job'[u] # None => JobOK(job'[u])
    BY <2>2, <2>3 DEF JobsOK
  <2>5. UNCHANGED <<events, states>>
    BY <1>3 DEF Pick
  <2>6. QED
    BY <2>4, <2>5 DEF JobsOK, JobOK, Waits, Announced, After
<1>4. ASSUME NEW v \in Workers, Examine(v)
      PROVE  JobsOK'
  <2>1. /\ job[v] \in Job /\ \A u \in Workers : u # v => job'[u] = job[u]
        /\ job[v] # None /\ UNCHANGED <<events, states>>
    BY <1>4, ExamineStep DEF Examine
  <2>2. PICK e \in job[v].todo : /\ \A f \in job[v].todo : f = e \/ After(f, e)
                                 /\ Continues(job'[v], job[v], e)
    BY <1>4, ExamineStep
  <2>3. JobOK(job[v])
    BY <2>1 DEF JobsOK
  <2>4. JobOK(job'[v])
    BY <2>1, <2>2, <2>3, JobGoesOn
  <2>5. \A u \in Workers : job'[u] # None => JobOK(job'[u])
    BY <2>1, <2>4 DEF JobsOK
  <2>6. UNCHANGED <<events, states>>
    BY <2>1
  <2>7. QED
    BY <2>5, <2>6 DEF JobsOK, JobOK, Waits, Announced, After
<1>5. ASSUME NEW v \in Workers, Finish(v) \/ WorkerFails(v)
      PROVE  JobsOK'
  <2>1. \A u \in Workers : job'[u] = IF u = v THEN None ELSE job[u]
    BY <1>5 DEF Finish, WorkerFails, TypeOK
  <2>2. SUFFICES ASSUME NEW u \in Workers, job'[u] # None
                 PROVE  JobOK(job[u])'
    BY DEF JobsOK
  <2>3. u # v /\ job'[u] = job[u] /\ job[u] # None /\ job[u] \in Job /\ job[u].key \in Keys
    BY <2>1, <2>2 DEF TypeOK, Job
  <2>4. states'[job[u].key] = states[job[u].key] /\ events' = events
    <3>1. CASE Finish(v)
      <4>1. job[u].key # job[v].key
        BY <2>3, <3>1 DEF Finish, LocksOK
      <4>2. QED
        BY <2>3, <3>1, <4>1 DEF Finish, TypeOK
    <3>2. CASE WorkerFails(v)
      BY <3>2 DEF WorkerFails
    <3>3. QED
      BY <1>5, <3>1, <3>2
  <2>5. JobOK(job[u])
    BY <2>3 DEF JobsOK
  <2>6. QED
    BY <2>3, <2>4, <2>5, JobKept
<1>6. CASE DeleteBatch \/ Forget
  <2>1. job' = job /\ events' \subseteq events
    BY <1>6 DEF DeleteBatch, Forget
  <2>2. SUFFICES ASSUME NEW v \in Workers, job[v] # None
                 PROVE  JobOK(job[v])'
    BY <2>1 DEF JobsOK
  <2>3. job[v] \in Job /\ job[v].key \in Keys /\ JobOK(job[v])
    BY <2>2 DEF TypeOK, Job, JobsOK
  <2>4. states'[job[v].key] = states[job[v].key]
    BY <1>6, <2>2, <2>3 DEF DeleteBatch, Forget, LocksOK
  <2>5. QED
    BY <2>1, <2>3, <2>4, JobKept
<1>7. QED
  BY <1>1, <1>2, <1>3, <1>4, <1>5, <1>6
     DEF Next, vars, WriterStep, WorkerStep, SweepStep, Receive, LockState, RecordFails, Done,
         StartSweep, FindIdle, LockIdle, SweepFails

(***************************************************************************)
(* Nothing that waits is forgotten.                                        *)
(***************************************************************************)
LEMMA StepRemembers ==
  ASSUME TypeOK, LocksOK, JobsOK, NothingForgotten, [Next]_vars
  PROVE  NothingForgotten'
<1>1. SUFFICES ASSUME NEW k \in Keys, NEW e \in events', k \in e.keys, states'[k] # None,
                      After(e, states'[k].cursor)
               PROVE  states'[k].done < states'[k].queued
  BY DEF NothingForgotten, Waits, Announced, After
<1>2. ASSUME e \in events, states'[k] = states[k]
      PROVE  states'[k].done < states'[k].queued
  BY <1>1, <1>2 DEF NothingForgotten, Waits, Announced
<1>3. CASE UNCHANGED <<events, states>>
  BY <1>2, <1>3
<1>4. ASSUME NEW w \in Writers, Record(w)
      PROVE  states'[k].done < states'[k].queued
  <2>1. CASE k \in recording[w].keys
    <3>1. states'[k] = Queue(states[k], recording[w]) /\ recording[w] \in Reports
      BY <1>4, <2>1 DEF Record, TypeOK
    <3>2. /\ states[k] \in State \cup {None}
          /\ states[k] # None => states[k].done <= states[k].queued
      BY DEF TypeOK
    <3>3. QED
      BY <3>1, <3>2, QueueType
  <2>2. CASE k \notin recording[w].keys
    BY <1>1, <1>2, <1>4, <2>2 DEF Record
  <2>3. QED
    BY <2>1, <2>2
<1>5. ASSUME NEW v \in Workers, Finish(v)
      PROVE  states'[k].done < states'[k].queued
  <2> DEFINE j == job[v]
  <2>1. /\ j \in Job /\ JobOK(j) /\ j.todo = {} /\ events' = events
        /\ states' = [states EXCEPT ![j.key] =
             [states[j.key] EXCEPT !.cursor = NewCursor(j, states[j.key]), !.next = j.next,
                                   !.done = NewDone(j, states[j.key])]]
    BY <1>5 DEF Finish, TypeOK, JobsOK
  <2> HIDE DEF j
  <2>2. CASE k = j.key
    <3>1. states[k] \in State /\ states[k].done < states[k].queued
      BY <2>1, <2>2 DEF JobOK, Waits, TypeOK
    <3>2. states'[k] = [states[k] EXCEPT !.cursor = j.last, !.next = j.next,
                                         !.done = NewDone(j, states[k])]
      BY <2>1, <2>2 DEF NewCursor, TypeOK
    <3>3. /\ states'[k].cursor = j.last /\ states'[k].queued = states[k].queued
          /\ states'[k].done = NewDone(j, states[k])
      BY <3>1, <3>2 DEF State
    <3>4. j.more
      BY <1>1, <2>1, <2>2, <3>3 DEF JobOK, Announced
    <3>5. QED
      BY <3>1, <3>3, <3>4 DEF NewDone
  <2>3. CASE k # j.key
    BY <1>2, <2>1, <2>3 DEF TypeOK
  <2>4. QED
    BY <2>2, <2>3
<1>6. CASE DeleteBatch \/ Forget
  <2>1. events' \subseteq events
    BY <1>6 DEF DeleteBatch, Forget
  <2>2. states'[k] = states[k]
    BY <1>1, <1>6 DEF DeleteBatch, Forget
  <2>3. QED
    BY <1>2, <2>1, <2>2
<1>7. QED
  BY <1>3, <1>4, <1>5, <1>6
     DEF Next, vars, WriterStep, WorkerStep, SweepStep, Receive, LockState, RecordFails, Done,
         Pick, Examine, WorkerFails, StartSweep, FindIdle, LockIdle, SweepFails

(***************************************************************************)
(* Alarms keep their distance.                                             *)
(***************************************************************************)
Apart(a, b) == a.key = b.key /\ a # b => a.at >= b.at + Window \/ b.at >= a.at + Window

LEMMA StepAlarms ==
  ASSUME TypeOK, LocksOK, AlarmInv, [Next]_vars
  PROVE  AlarmInv'
<1>1. CASE UNCHANGED <<alarms, job>>
  BY <1>1 DEF AlarmInv, AlarmsApart, RaisedOK
<1>2. ASSUME alarms' = alarms, NEW v \in Workers,
             \A u \in Workers : u # v => job'[u] = job[u],
             job'[v] # None =>
               /\ \A a \in job'[v].raised : a.key = job'[v].key
               /\ \A a, b \in alarms \cup job'[v].raised : Apart(a, b)
      PROVE  AlarmInv'
  <2>1. AlarmsApart'
    BY <1>2 DEF AlarmInv, AlarmsApart
  <2>2. ASSUME NEW u \in Workers, job'[u] # None
        PROVE  /\ \A a \in job'[u].raised : a.key = job'[u].key
               /\ \A a, b \in alarms \cup job'[u].raised : Apart(a, b)
    BY <1>2, <2>2 DEF AlarmInv, RaisedOK, Apart
  <2>3. QED
    BY <1>2, <2>1, <2>2 DEF AlarmInv, RaisedOK, Apart
<1>3. ASSUME NEW v \in Workers, Pick(v)
      PROVE  AlarmInv'
  <2>1. PICK k \in Pending :
          job' = [job EXCEPT ![v] =
            [key |-> k, todo |-> Batch(k), more |-> Cardinality(Fresh(k)) > BatchSize,
             last |-> states[k].cursor, next |-> states[k].next, raised |-> {}]]
    BY <1>3 DEF Pick
  <2>2. job'[v].raised = {} /\ \A u \in Workers : u # v => job'[u] = job[u]
    BY <2>1 DEF TypeOK
  <2>3. \A a, b \in alarms \cup job'[v].raised : Apart(a, b)
    BY <2>2 DEF AlarmInv, AlarmsApart, Apart
  <2>4. alarms' = alarms
    BY <1>3 DEF Pick
  <2>5. QED
    BY <1>2, <2>2, <2>3, <2>4
<1>4. ASSUME NEW v \in Workers, Examine(v)
      PROVE  AlarmInv'
  <2>1. PICK e \in job[v].todo : Continues(job'[v], job[v], e)
    BY <1>4, ExamineStep
  <2>2. /\ job[v] # None /\ job[v] \in Job /\ alarms' = alarms
        /\ \A u \in Workers : u # v => job'[u] = job[u]
    BY <1>4, ExamineStep DEF Examine
  <2>3. job'[v].key = job[v].key
    BY <2>1 DEF Continues
  <2>4. /\ \A a \in job[v].raised : a.key = job[v].key
        /\ \A a, b \in alarms \cup job[v].raised : Apart(a, b)
    BY <2>2 DEF AlarmInv, RaisedOK, Apart
  <2>5. CASE job'[v].raised = job[v].raised
    BY <1>2, <2>2, <2>3, <2>4, <2>5
  <2>6. CASE /\ job'[v].raised = job[v].raised \cup {[key |-> job[v].key, at |-> e.at]}
             /\ NearAlarms(e, job[v].key, job[v].raised) = {}
    <3> DEFINE c == [key |-> job[v].key, at |-> e.at]
    <3>1. e.at \in Int /\ Window \in Nat \ {0} /\ c.key = job[v].key /\ c.at = e.at
      BY <2>1, <2>2, SizeAssumption DEF Job, Login, Times
    <3>2. ASSUME NEW a \in alarms \cup job[v].raised
          PROVE  Apart(a, c) /\ Apart(c, a)
      <4>1. a.at \in Int
        BY <2>2, SizeAssumption DEF TypeOK, Job, Alarm, Times
      <4>2. a.key = job[v].key => ~ Nearby(a, e)
        BY <2>6 DEF NearAlarms
      <4>3. QED
        BY <3>1, <4>1, <4>2 DEF Apart, Nearby
    <3>3. Apart(c, c)
      BY DEF Apart
    <3>4. \A a, b \in alarms \cup job'[v].raised : Apart(a, b)
      BY <2>4, <2>6, <3>2, <3>3
    <3>5. \A a \in job'[v].raised : a.key = job'[v].key
      BY <2>3, <2>4, <2>6, <3>1
    <3>6. QED
      BY <1>2, <2>2, <3>4, <3>5
  <2>7. QED
    BY <2>1, <2>5, <2>6 DEF Continues
<1>5. ASSUME NEW v \in Workers, Finish(v)
      PROVE  AlarmInv'
  <2>1. /\ job[v] # None /\ alarms' = alarms \cup job[v].raised
        /\ \A u \in Workers : job'[u] = IF u = v THEN None ELSE job[u]
    BY <1>5 DEF Finish, TypeOK
  <2>2. /\ \A a \in job[v].raised : a.key = job[v].key
        /\ \A a, b \in alarms' : Apart(a, b)
    BY <2>1 DEF AlarmInv, RaisedOK, Apart
  <2>3. AlarmsApart'
    BY <2>2 DEF AlarmsApart, Apart
  <2>4. ASSUME NEW u \in Workers, job'[u] # None
        PROVE  /\ \A a \in job'[u].raised : a.key = job'[u].key
               /\ \A a, b \in alarms' \cup job'[u].raised : Apart(a, b)
    <3>1. u # v /\ job'[u] = job[u] /\ job[u] # None
      BY <2>1, <2>4
    <3>2. job[u].key # job[v].key
      BY <2>1, <3>1 DEF LocksOK
    <3>3. /\ \A a \in job[u].raised : a.key = job[u].key
          /\ \A a, b \in alarms \cup job[u].raised : Apart(a, b)
      BY <3>1 DEF AlarmInv, RaisedOK, Apart
    <3>4. \A a \in job[v].raised, b \in job[u].raised : Apart(a, b) /\ Apart(b, a)
      BY <2>2, <3>2, <3>3 DEF Apart
    <3>5. QED
      BY <2>1, <2>2, <3>1, <3>3, <3>4
  <2>5. QED
    BY <2>3, <2>4 DEF AlarmInv, RaisedOK, Apart
<1>6. ASSUME NEW v \in Workers, WorkerFails(v)
      PROVE  AlarmInv'
  <2>1. alarms' = alarms /\ \A u \in Workers : job'[u] = IF u = v THEN None ELSE job[u]
    BY <1>6 DEF WorkerFails, TypeOK
  <2>2. QED
    BY <1>2, <2>1
<1>7. CASE DeleteBatch
  <2>1. alarms' \subseteq alarms /\ job' = job
    BY <1>7 DEF DeleteBatch
  <2>2. QED
    BY <2>1 DEF AlarmInv, AlarmsApart, RaisedOK
<1>8. QED
  BY <1>1, <1>3, <1>4, <1>5, <1>6, <1>7
     DEF Next, vars, WriterStep, WorkerStep, SweepStep, Receive, LockState, Record, RecordFails,
         Done, StartSweep, FindIdle, LockIdle, Forget, SweepFails

(***************************************************************************)
(* The theorems.                                                           *)
(***************************************************************************)
LEMMA InitOK == Init => QueueInv /\ AlarmInv
<1> SUFFICES ASSUME Init
             PROVE  QueueInv /\ AlarmInv
  OBVIOUS
<1>1. Asleep \in Sweep /\ Asleep.phase # "rows" /\ Asleep.locked = {}
  BY SizeAssumption DEF Asleep, Sweep
<1>2. TypeOK
  BY <1>1, SizeAssumption DEF Init, TypeOK
<1>3. LocksOK /\ JobsOK /\ NothingForgotten
  BY <1>1 DEF Init, LocksOK, JobsOK, NothingForgotten, Announced
<1>4. AlarmInv
  BY DEF Init, AlarmInv, AlarmsApart, RaisedOK
<1>5. QED
  BY <1>2, <1>3, <1>4 DEF QueueInv

LEMMA Inductive == Spec => [](QueueInv /\ AlarmInv)
<1>1. QueueInv /\ AlarmInv /\ [Next]_vars => (QueueInv /\ AlarmInv)'
  BY StepType, StepLocks, StepJobs, StepRemembers, StepAlarms DEF QueueInv
<1>2. QED
  BY InitOK, <1>1, PTL DEF Spec

\* Rows always fit the schema, and a state is never done with more than was queued.
THEOREM DetectionTypes == Spec => []TypeOK
<1>1. QueueInv => TypeOK
  BY DEF QueueInv
<1>2. QED
  BY Inductive, <1>1, PTL

\* No login that queued a key is taken for examined before a worker of it has come to the
\* login: not when it is committed behind the cursor, in the middle of a batch, after a
\* failure or a sweep.
THEOREM LoginsAreRemembered == Spec => []NothingForgotten
<1>1. QueueInv => NothingForgotten
  BY DEF QueueInv
<1>2. QED
  BY Inductive, <1>1, PTL

\* Two alarms of a key are never less than a window apart, however late its logins
\* arrive and however often their windows are replayed.
THEOREM NoAlarmTwice == Spec => []AlarmsApart
<1>1. AlarmInv => AlarmsApart
  BY DEF AlarmInv
<1>2. QED
  BY Inductive, <1>1, PTL

(***************************************************************************)
(* Bursts.  Up to the place where its detector has come to, every burst of *)
(* logins that queued a key has its alarm nearby.  A login that queues the *)
(* key late takes the place back in front of every burst it may be part of.*)
(***************************************************************************)
Owed(e, k) == e.at >= cutoff + Window /\ AnnouncedBurst(e, k)
Served(e, k, as) == \E a \in as : a.key = k /\ Nearby(a, e)
ServedUpTo(k, pos, as) ==
  \A e \in Announced(k) : Owed(e, k) /\ ~ After(e, pos) => Served(e, k, as)

\* What lies before the next eligible moment is served by an alarm, or is long past.
QuietUntil(k, next, pos, as) ==
  next # None =>
    \/ next < cutoff + Window
    \/ \E a \in as : a.key = k /\ next = a.at + Window /\ a.at < pos.at + Window

StateServes(k) ==
  states[k] # None =>
    /\ ServedUpTo(k, states[k].cursor, alarms)
    /\ QuietUntil(k, states[k].next, states[k].cursor, alarms)

\* What a worker has loaded is older than any announced login it has left.
Oldest(k, todo, pos) ==
  \A e \in Announced(k) \ todo : After(e, pos) => \A f \in todo : After(e, f)
JobServes(j) ==
  /\ ServedUpTo(j.key, j.last, alarms \cup j.raised)
  /\ QuietUntil(j.key, j.next, j.last, alarms \cup j.raised)
  /\ Oldest(j.key, j.todo, j.last)

BurstInv ==
  /\ \A k \in Keys : StateServes(k)
  /\ \A v \in Workers : job[v] # None => JobServes(job[v])

LEMMA EventFacts ==
  ASSUME TypeOK, NEW k
  PROVE  /\ Of(k) \subseteq Reports /\ IsFiniteSet(Of(k)) /\ Announced(k) \subseteq Of(k)
         /\ cutoff \in Int /\ Window \in Nat \ {0}
         /\ \A a \in alarms : a.at \in Int
BY ReportAssumption, SizeAssumption, FS_Subset DEF Of, Announced, TypeOK, Alarm, Times

LEMMA FewerAttempts ==
  ASSUME NEW S, NEW T, IsFiniteSet(S), T \subseteq S, NEW n \in Nat, Cardinality(T) >= n
  PROVE  Cardinality(S) >= n
<1>1. IsFiniteSet(T) /\ Cardinality(T) <= Cardinality(S)
  BY FS_Subset
<1>2. QED
  BY <1>1, FS_CardinalityType

\* A burst of logins that queued the key is one of all that its query finds.
LEMMA OwedIsBurst ==
  ASSUME TypeOK, NEW k \in Keys, NEW e, Owed(e, k)
  PROVE  Burst(e, k)
<1>1. IsFiniteSet(Attempts(e, k)) /\ Threshold[k] \in Nat
  BY EventFacts, SizeAssumption, FS_Subset DEF Attempts
<1>2. QED
  BY <1>1, FewerAttempts DEF Owed, AnnouncedBurst, Burst

\* What goes while time passes: logins and alarms that nothing depends on any more.
Fades(as, bs) == cutoff' >= cutoff /\ \A a \in as : a \in bs \/ a.at < cutoff'

LEMMA ServedStays ==
  ASSUME TypeOK, TypeOK', NEW k \in Keys, NEW pos, NEW as, NEW bs, \A a \in as : a.at \in Int,
         Announced(k)' \subseteq Announced(k), Fades(as, bs), ServedUpTo(k, pos, as)
  PROVE  ServedUpTo(k, pos, bs)'
<1> SUFFICES ASSUME NEW e \in Announced(k)', Owed(e, k)', ~ After(e, pos)
             PROVE  Served(e, k, bs)
  BY DEF ServedUpTo, After, Served, Nearby
<1>1. /\ e \in Announced(k) /\ e \in Reports /\ e.at \in Int /\ Threshold[k] \in Nat
      /\ cutoff \in Int /\ cutoff' \in Int /\ cutoff' >= cutoff /\ Window \in Nat
  BY EventFacts, ReportsAreLogins, SizeAssumption DEF Fades, TypeOK, Times
<1> DEFINE attempts == Attempts(e, k) \cap Announced(k)
<1>2. attempts' \subseteq attempts /\ IsFiniteSet(attempts)
  BY EventFacts, FS_Subset DEF Attempts
<1>3. AnnouncedBurst(e, k)
  <2>1. Cardinality(attempts') >= Threshold[k]
    BY DEF Owed, AnnouncedBurst
  <2> HIDE DEF attempts
  <2>2. Cardinality(attempts) >= Threshold[k]
    BY <1>1, <1>2, <2>1, FewerAttempts
  <2>3. QED
    BY <2>2 DEF AnnouncedBurst, attempts
<1>4. e.at >= cutoff' + Window /\ Owed(e, k)
  BY <1>1, <1>3 DEF Owed
<1>5. PICK a \in as : a.key = k /\ Nearby(a, e)
  BY <1>1, <1>4 DEF ServedUpTo, Served
<1>6. ~ (a.at < cutoff')
  <2>1. a.at \in Int /\ a.at > e.at - Window
    BY <1>5 DEF Nearby
  <2>2. QED
    BY <1>1, <1>4, <2>1
<1>7. QED
  BY <1>5, <1>6 DEF Served, Fades

LEMMA QuietStays ==
  ASSUME TypeOK, TypeOK', NEW k, NEW next, NEW pos, NEW as, NEW bs, \A a \in as : a.at \in Int,
         next # None => next \in Int,
         Fades(as, bs), QuietUntil(k, next, pos, as)
  PROVE  QuietUntil(k, next, pos, bs)'
<1>1. cutoff \in Int /\ cutoff' \in Int /\ cutoff' >= cutoff /\ Window \in Nat
  BY SizeAssumption DEF Fades, TypeOK, Times
<1>2. CASE next = None \/ next < cutoff + Window
  BY <1>1, <1>2 DEF QuietUntil
<1>3. ASSUME NEW a \in as, a.key = k, next = a.at + Window, a.at < pos.at + Window
      PROVE  QuietUntil(k, next, pos, bs)'
  <2>1. CASE a \in bs
    BY <1>3, <2>1 DEF QuietUntil
  <2>2. CASE a.at < cutoff'
    <3>1. a.at \in Int
      OBVIOUS
    <3>2. next < cutoff' + Window
      BY <1>1, <1>3, <2>2, <3>1
    <3>3. QED
      BY <3>2 DEF QuietUntil
  <2>3. QED
    BY <2>1, <2>2 DEF Fades
<1>4. QED
  BY <1>2, <1>3 DEF QuietUntil

LEMMA StateStays ==
  ASSUME TypeOK, TypeOK', NEW k \in Keys, states'[k] = states[k], Announced(k)' \subseteq Announced(k),
         Fades(alarms, alarms'), StateServes(k)
  PROVE  StateServes(k)'
<1> PICK s : s = states[k]
  OBVIOUS
<1>1. CASE s = None
  BY <1>1 DEF StateServes
<1>2. CASE s # None
  <2>1. s.next # None => s.next \in Int
    BY <1>2 DEF TypeOK, State
  <2>2. ServedUpTo(k, s.cursor, alarms) /\ QuietUntil(k, s.next, s.cursor, alarms)
    BY <1>2 DEF StateServes
  <2> PICK as : as = alarms
    OBVIOUS
  <2> PICK bs : bs = alarms'
    OBVIOUS
  <2>3. ServedUpTo(k, s.cursor, bs)' /\ QuietUntil(k, s.next, s.cursor, bs)'
    BY <2>1, <2>2, ServedStays, QuietStays, EventFacts DEF Fades
  <2>4. QED
    BY <2>3 DEF StateServes
<1>3. QED
  BY <1>1, <1>2

LEMMA JobStays ==
  ASSUME TypeOK, TypeOK', NEW j \in Job, Announced(j.key)' \subseteq Announced(j.key),
         Fades(alarms, alarms'), JobServes(j)
  PROVE  JobServes(j)'
<1>1. /\ j.key \in Keys
      /\ j.next # None => j.next \in Int
      /\ \A a \in alarms \cup j.raised : a.at \in Int
  BY EventFacts DEF Job, Alarm, Times
<1> PICK as : as = alarms \cup j.raised
  OBVIOUS
<1> PICK bs : bs = alarms' \cup j.raised
  OBVIOUS
<1>2. Fades(as, bs)
  BY DEF Fades
<1>3. ServedUpTo(j.key, j.last, bs)'
  <2>1. ServedUpTo(j.key, j.last, as)
    BY DEF JobServes
  <2>2. QED
    BY <1>1, <1>2, <2>1, ServedStays
<1>4. QuietUntil(j.key, j.next, j.last, bs)'
  <2>1. QuietUntil(j.key, j.next, j.last, as)
    BY DEF JobServes
  <2>2. QED
    BY <1>1, <1>2, <2>1, QuietStays
<1>5. Oldest(j.key, j.todo, j.last)'
  BY DEF JobServes, Oldest, After
<1>6. QED
  BY <1>3, <1>4, <1>5 DEF JobServes

(***************************************************************************)
(* A worker.                                                               *)
(***************************************************************************)
\* The alarm that a burst was found near, or was given, serves it, and everything until
\* the next eligible moment.
LEMMA VerdictFound ==
  ASSUME TypeOK, NEW j \in Job, NEW e \in j.todo, JobServes(j), After(e, j.last),
         NEW r \in Verdicts(j, e)
  PROVE  /\ Owed(e, j.key) => Served(e, j.key, alarms \cup r.raised)
         /\ QuietUntil(j.key, r.next, r.last, alarms \cup r.raised)
         /\ j.raised \subseteq r.raised
<1>1. /\ e \in Login /\ e.at \in Int /\ e.id \in Int /\ Window \in Nat \ {0} /\ cutoff \in Int
      /\ j.last.at \in Int /\ j.last.at <= e.at
      /\ j.next # None => j.next \in Int
      /\ j.key \in Keys
      /\ \A a \in alarms \cup j.raised : a.at \in Int
  <2>1. e \in Login /\ j.last.at \in Int
    BY SizeAssumption DEF Job, Position, Times
  <2>2. /\ e.at \in Int /\ e.id \in Int
        /\ j.next # None => j.next \in Int
    BY <2>1, SizeAssumption DEF Job, Login, Times
  <2>3. j.last.at <= e.at
    BY <2>1, <2>2 DEF After
  <2>4. \A a \in alarms \cup j.raised : a.at \in Int
    BY SizeAssumption DEF TypeOK, Job, Alarm, Times
  <2>5. QED
    BY <2>1, <2>2, <2>3, <2>4, EventFacts DEF Job
<1>2. /\ Examined(j, e).next = j.next /\ Examined(j, e).raised = j.raised
      /\ Examined(j, e).last = [at |-> e.at, id |-> e.id]
  BY DEF Examined, Job
<1>3. Continues(r, j, e)
  BY VerdictType
<1>4. CASE r = Examined(j, e) /\ (Ineligible(j, e) \/ ~ Burst(e, j.key))
  <2>1. r.next = j.next /\ r.last.at = e.at /\ r.raised = j.raised
    BY <1>2, <1>4
  <2> PICK as : as = alarms \cup j.raised
    OBVIOUS
  <2>2. QuietUntil(j.key, j.next, j.last, as)
    BY DEF JobServes
  <2>3. QuietUntil(j.key, r.next, r.last, as)
    <3>1. \A a \in as : a.at < j.last.at + Window => a.at < e.at + Window
      BY <1>1
    <3>2. QED
      BY <2>1, <2>2, <3>1 DEF QuietUntil
  <2>4. Owed(e, j.key) => Served(e, j.key, as)
    <3>1. SUFFICES ASSUME Owed(e, j.key) PROVE Served(e, j.key, as)
      OBVIOUS
    <3>2. j.next # None /\ e.at < j.next /\ ~ (j.next < cutoff + Window)
      BY <1>1, <1>4, <3>1, OwedIsBurst DEF Owed, Ineligible
    <3>3. PICK a \in as : a.key = j.key /\ j.next = a.at + Window /\ a.at < j.last.at + Window
      BY <2>2, <3>2 DEF QuietUntil
    <3>4. a.at \in Int
      BY <1>1
    <3>5. Nearby(a, e)
      BY <1>1, <3>2, <3>3, <3>4 DEF Nearby
    <3>6. QED
      BY <3>3, <3>5 DEF Served
  <2>5. QED
    BY <2>1, <2>3, <2>4
<1>5. CASE r = Raised(j, e)
  <2> PICK a : a = [key |-> j.key, at |-> e.at]
    OBVIOUS
  <2>1. /\ r.next = e.at + Window /\ r.raised = j.raised \cup {a} /\ r.last.at = e.at
        /\ a.key = j.key /\ a.at = e.at
    BY <1>2, <1>5 DEF Raised, Examined, Job
  <2>2. Nearby(a, e)
    BY <1>1, <2>1 DEF Nearby
  <2>3. r.next = a.at + Window /\ a.at < r.last.at + Window
    BY <1>1, <2>1
  <2>4. QED
    BY <2>1, <2>2, <2>3 DEF Served, QuietUntil
<1>6. CASE \E a \in NearAlarms(e, j.key, j.raised) : r = Suppressed(j, e, a)
  <2>1. PICK a \in NearAlarms(e, j.key, j.raised) : r = Suppressed(j, e, a)
    BY <1>6
  <2>2. /\ r.next = a.at + Window /\ r.raised = j.raised /\ r.last.at = e.at
    BY <1>2, <2>1 DEF Suppressed, Examined, Job
  <2>3. a \in alarms \cup j.raised /\ a.key = j.key /\ Nearby(a, e)
    BY <2>1 DEF NearAlarms
  <2>4. a.at < r.last.at + Window
    BY <2>2, <2>3 DEF Nearby
  <2>5. QED
    BY <2>2, <2>3, <2>4 DEF Served, QuietUntil
<1>7. QED
  BY <1>4, <1>5, <1>6 DEF Verdicts

LEMMA VerdictServes ==
  ASSUME TypeOK, NEW j \in Job, NEW e \in j.todo, JobOK(j), JobServes(j),
         \A f \in j.todo : f = e \/ After(f, e), NEW r \in Verdicts(j, e)
  PROVE  JobServes(r)
<1> PICK k : k = j.key
  OBVIOUS
<1>1. /\ r.key = k /\ r.todo = j.todo \ {e} /\ r.last = [at |-> e.at, id |-> e.id]
      /\ After(e, j.last)
  BY VerdictType DEF Continues, JobOK
<1>2. /\ Owed(e, k) => Served(e, k, alarms \cup r.raised)
      /\ QuietUntil(k, r.next, r.last, alarms \cup r.raised)
      /\ j.raised \subseteq r.raised
  BY <1>1, VerdictFound
<1>3. /\ e \in Login /\ e.at \in Int /\ e.id \in Int
      /\ j.last.at \in Int /\ j.last.id \in Int
      /\ \A f \in Announced(k) : f.at \in Int /\ f.id \in Int /\ f \in Login
  BY ReportAssumption, SizeAssumption DEF TypeOK, Announced, Job, Login, Position, Times
<1>4. ASSUME NEW f \in Announced(k), Owed(f, k), ~ After(f, r.last)
      PROVE  Served(f, k, alarms \cup r.raised)
  <2>1. CASE f = e
    BY <1>2, <1>4, <2>1
  <2>2. CASE f # e
    <3>1. ~ After(f, e)
      BY <1>1, <1>4 DEF After
    <3>2. f \notin j.todo
      BY <2>2, <3>1
    <3>3. ~ After(f, j.last)
      BY <3>1, <3>2 DEF JobServes, Oldest
    <3>4. Served(f, k, alarms \cup j.raised)
      BY <1>4, <3>3 DEF JobServes, ServedUpTo
    <3>5. QED
      BY <1>2, <3>4 DEF Served
  <2>3. QED
    BY <2>1, <2>2
<1>5. ASSUME NEW f \in Announced(k), f \notin r.todo, After(f, r.last), NEW g \in r.todo
      PROVE  After(f, g)
  <2>1. After(f, e)
    BY <1>1, <1>5 DEF After
  <2>2. f # e /\ f \notin j.todo /\ g \in j.todo
    BY <1>1, <1>3, <1>5, <2>1 DEF After
  <2>3. After(f, j.last)
    BY <1>1, <1>3, <2>1 DEF After
  <2>4. QED
    BY <2>2, <2>3 DEF JobServes, Oldest
<1>6. QED
  BY <1>1, <1>2, <1>4, <1>5 DEF JobServes, ServedUpTo, Oldest

\* The batch of a worker is the oldest of what is new.
LEMMA BatchOldest ==
  ASSUME TypeOK, NEW k \in Keys
  PROVE  Oldest(k, Batch(k), states[k].cursor)
<1> SUFFICES ASSUME NEW e \in Announced(k), e \notin Batch(k), After(e, states[k].cursor),
                    NEW f \in Batch(k)
             PROVE  After(e, f)
  BY DEF Oldest
<1> DEFINE Before(x) == {g \in Fresh(k) : After(x, g)}
<1>1. /\ e \in Fresh(k) /\ f \in Fresh(k) /\ IsFiniteSet(Fresh(k)) /\ Fresh(k) \subseteq Reports
  BY EventFacts, FS_Subset DEF Fresh, Batch
<1>2. ~ (Cardinality(Before(e)) < BatchSize) /\ Cardinality(Before(f)) < BatchSize
  BY <1>1 DEF Batch
<1>3. /\ e.at \in Int /\ e.id \in Int /\ f.at \in Int /\ f.id \in Int
      /\ e.at = f.at /\ e.id = f.id => e = f
      /\ \A g \in Fresh(k) : g.at \in Int /\ g.id \in Int
  BY <1>1, ReportsAreLogins, ReportAssumption
<1>4. CASE e = f
  BY <1>2, <1>4
<1>5. CASE After(f, e)
  <2>1. Before(e) \subseteq Before(f) /\ IsFiniteSet(Before(f)) /\ IsFiniteSet(Before(e))
    BY <1>1, <1>3, <1>5, FS_Subset DEF After
  <2>2. Cardinality(Before(e)) <= Cardinality(Before(f))
    BY <2>1, FS_Subset
  <2>3. Cardinality(Before(e)) \in Nat /\ Cardinality(Before(f)) \in Nat
    BY <2>1, FS_CardinalityType
  <2>4. QED
    BY <1>2, <2>2, <2>3, SizeAssumption
<1>6. QED
  BY <1>3, <1>4, <1>5 DEF After

LEMMA PickServes ==
  ASSUME TypeOK, NEW k \in Pending, StateServes(k), NEW j,
         j = [key |-> k, todo |-> Batch(k), more |-> Cardinality(Fresh(k)) > BatchSize,
              last |-> states[k].cursor, next |-> states[k].next, raised |-> {}]
  PROVE  JobServes(j)
<1>1. k \in Keys /\ states[k] # None
  BY DEF Pending, Waits
<1>2. /\ j.key = k /\ j.last = states[k].cursor /\ j.next = states[k].next
      /\ alarms \cup j.raised = alarms /\ j.todo = Batch(k)
  OBVIOUS
<1>3. QED
  BY <1>1, <1>2, BatchOldest DEF JobServes, StateServes

(***************************************************************************)
(* A writer.                                                               *)
(***************************************************************************)
LEMMA RecordServes ==
  ASSUME TypeOK, NEW w \in Writers, Record(w), NEW k \in Keys, k \in recording[w].keys,
         StateServes(k)
  PROVE  StateServes(k)'
<1> PICK e : e = recording[w]
  OBVIOUS
<1> PICK s : s = states[k]
  OBVIOUS
<1>1. /\ e \in Reports /\ events' = events \cup {e} /\ states'[k] = Queue(s, e)
      /\ UNCHANGED <<alarms, cutoff>> /\ s \in State \cup {None}
  BY DEF Record, Done, TypeOK
<1>2. /\ e.at \in Int /\ e.at >= 0 /\ Window \in Nat /\ events \subseteq Reports
      /\ \A f \in Announced(k)' : f.at \in Int /\ f.at >= 0 /\ f.id \in Nat /\ f.id > 0
  BY <1>1, ReportsAreLogins, SizeAssumption DEF Announced, TypeOK
<1>3. ASSUME NEW f \in Announced(k)', f.at < e.at, Owed(f, k)'
      PROVE  f \in Announced(k) /\ Owed(f, k)
  <2>1. f \in Announced(k)
    BY <1>1, <1>2, <1>3 DEF Announced
  <2>2. Attempts(f, k)' \cap Announced(k)' = Attempts(f, k) \cap Announced(k)
    BY <1>1, <1>2, <1>3 DEF Attempts, Of, Announced
  <2>3. QED
    BY <1>1, <1>3, <2>1, <2>2 DEF Owed, AnnouncedBurst
<1>4. CASE s = None
  <2>1. states'[k].cursor = Start /\ states'[k].next = None
    BY <1>1, <1>4 DEF Queue, NewState
  <2>2. \A f \in Announced(k)' : After(f, Start)
    BY <1>2 DEF After, Start
  <2>3. QED
    BY <2>1, <2>2 DEF StateServes, ServedUpTo, QuietUntil, After
<1>5. CASE s # None
  <2>1. /\ s \in State /\ s.cursor.at \in Int /\ s.cursor.id \in Int
        /\ ServedUpTo(k, s.cursor, alarms) /\ QuietUntil(k, s.next, s.cursor, alarms)
    BY <1>1, <1>5, SizeAssumption DEF StateServes, State, Position, Times
  <2> DEFINE b == [s EXCEPT !.queued = @ + 1, !.active = e.at]
  <2>2. /\ b.cursor = s.cursor /\ b.next = s.next
        /\ Rewind(b, e).cursor = [at |-> e.at - 1, id |-> 0] /\ Rewind(b, e).next = None
        /\ states'[k] = IF Late(s, e) THEN Rewind(b, e) ELSE b
    BY <1>1, <1>5, <2>1 DEF Rewind, State, Queue
  <2> HIDE DEF b
  <2>3. CASE Late(s, e)
    <3>1. states'[k].cursor = [at |-> e.at - 1, id |-> 0] /\ states'[k].next = None
      BY <2>2, <2>3
    <3>2. ASSUME NEW f \in Announced(k)', Owed(f, k)', ~ After(f, states'[k].cursor)
          PROVE  Served(f, k, alarms)
      <4>1. f.at < e.at
        BY <1>2, <3>1, <3>2 DEF After
      <4>2. ~ After(f, s.cursor)
        <5>1. s.cursor.at >= e.at
          BY <2>3 DEF Late
        <5>2. QED
          BY <1>2, <2>1, <4>1, <5>1 DEF After
      <4>3. QED
        BY <1>3, <2>1, <3>2, <4>1, <4>2 DEF ServedUpTo
    <3>3. QED
      BY <1>1, <3>1, <3>2 DEF StateServes, ServedUpTo, QuietUntil, After, Served, Nearby
  <2>4. CASE ~ Late(s, e)
    <3>1. states'[k].cursor = s.cursor /\ states'[k].next = s.next
      BY <2>2, <2>4
    <3>2. ASSUME NEW f \in Announced(k)', Owed(f, k)', ~ After(f, s.cursor)
          PROVE  Served(f, k, alarms)
      <4>1. f.at < e.at
        <5>1. s.cursor.at < e.at
          BY <1>2, <2>1, <2>4 DEF Late
        <5>2. QED
          BY <1>2, <2>1, <3>2, <5>1 DEF After
      <4>2. QED
        BY <1>3, <2>1, <3>2, <4>1 DEF ServedUpTo
    <3>3. QED
      BY <1>1, <2>1, <3>1, <3>2 DEF StateServes, ServedUpTo, QuietUntil, After, Served, Nearby
  <2>5. QED
    BY <2>3, <2>4
<1>6. QED
  BY <1>4, <1>5

LEMMA StepBursts ==
  ASSUME TypeOK, TypeOK', LocksOK, JobsOK, BurstInv, [Next]_vars
  PROVE  BurstInv'
<1>0. /\ \A v \in Workers : job[v] # None => job[v] \in Job /\ job[v].key \in Keys
      /\ cutoff \in Int
  BY EventFacts DEF TypeOK, Job
<1>1. ASSUME NEW k \in Keys, Announced(k)' \subseteq Announced(k), Fades(alarms, alarms'),
             states'[k] = states[k]
      PROVE  StateServes(k)'
  BY <1>1, StateStays DEF BurstInv
<1>2. ASSUME NEW v \in Workers, job[v] # None, job'[v] = job[v],
             Announced(job[v].key)' \subseteq Announced(job[v].key), Fades(alarms, alarms')
      PROVE  JobServes(job[v])'
  <2> PICK j : j = job[v]
    OBVIOUS
  <2>1. j \in Job /\ JobServes(j)
    BY <1>0, <1>2 DEF BurstInv
  <2>2. JobServes(j)'
    BY <1>2, <2>1, JobStays
  <2>3. QED
    BY <1>2, <2>2
<1>3. CASE Fades(alarms, alarms') /\ UNCHANGED <<states, job>> /\ events' \subseteq events
  <2>1. \A k : Announced(k)' \subseteq Announced(k)
    BY <1>3 DEF Announced
  <2>2. QED
    BY <1>1, <1>2, <1>3, <2>1 DEF BurstInv
<1>4. CASE UNCHANGED <<events, alarms, states, job, cutoff>>
  BY <1>0, <1>3, <1>4 DEF Fades
<1>5. ASSUME NEW w \in Writers, Record(w)
      PROVE  BurstInv'
  <2>1. /\ job' = job /\ Fades(alarms, alarms')
        /\ \A k \in Keys : k \notin recording[w].keys =>
             states'[k] = states[k] /\ Announced(k)' \subseteq Announced(k)
    BY <1>0, <1>5 DEF Record, Done, Fades, Announced
  <2>2. \A k \in Keys : StateServes(k)'
    BY <1>1, <1>5, <2>1, RecordServes DEF BurstInv
  <2>3. \A v \in Workers : job[v] # None => job[v].key \notin recording[w].keys
    BY <1>5 DEF Record, LocksOK
  <2>4. QED
    BY <1>0, <1>2, <2>1, <2>2, <2>3 DEF BurstInv
<1>6. ASSUME NEW v \in Workers, Pick(v)
      PROVE  BurstInv'
  <2>1. PICK k \in Pending :
          job' = [job EXCEPT ![v] =
            [key |-> k, todo |-> Batch(k), more |-> Cardinality(Fresh(k)) > BatchSize,
             last |-> states[k].cursor, next |-> states[k].next, raised |-> {}]]
    BY <1>6 DEF Pick
  <2>2. /\ job'[v] = [key |-> k, todo |-> Batch(k), more |-> Cardinality(Fresh(k)) > BatchSize,
                      last |-> states[k].cursor, next |-> states[k].next, raised |-> {}]
        /\ \A u \in Workers : u # v => job'[u] = job[u]
    BY <2>1 DEF TypeOK
  <2>3. k \in Keys /\ StateServes(k)
    BY DEF Pending, BurstInv
  <2>4. JobServes(job'[v])
    BY <2>2, <2>3, PickServes
  <2>5. UNCHANGED <<events, alarms, states, cutoff>>
    BY <1>6 DEF Pick
  <2>6. \A u \in Workers : job'[u] # None => JobServes(job'[u])
    BY <2>2, <2>4 DEF BurstInv
  <2>7. QED
    BY <2>5, <2>6 DEF BurstInv, StateServes, JobServes, ServedUpTo, QuietUntil, Oldest, Owed,
                      AnnouncedBurst, Attempts, Of, Announced, After, Served, Nearby
<1>7. ASSUME NEW v \in Workers, Examine(v)
      PROVE  BurstInv'
  <2>1. PICK e \in job[v].todo : /\ \A f \in job[v].todo : f = e \/ After(f, e)
                                 /\ \E r \in Verdicts(job[v], e) : job' = [job EXCEPT ![v] = r]
    BY <1>7 DEF Examine
  <2>2. PICK r \in Verdicts(job[v], e) : job' = [job EXCEPT ![v] = r]
    BY <2>1
  <2>3. job'[v] = r /\ \A u \in Workers : u # v => job'[u] = job[u]
    BY <2>2 DEF TypeOK
  <2>4. job[v] \in Job /\ JobOK(job[v]) /\ JobServes(job[v])
    BY <1>0, <1>7 DEF Examine, JobsOK, BurstInv
  <2>5. JobServes(r)
    BY <2>1, <2>2, <2>4, VerdictServes
  <2>6. UNCHANGED <<events, alarms, states, cutoff>>
    BY <1>7 DEF Examine
  <2>7. \A u \in Workers : job'[u] # None => JobServes(job'[u])
    BY <2>3, <2>5 DEF BurstInv
  <2>8. QED
    BY <2>6, <2>7 DEF BurstInv, StateServes, JobServes, ServedUpTo, QuietUntil, Oldest, Owed,
                      AnnouncedBurst, Attempts, Of, Announced, After, Served, Nearby
<1>8. ASSUME NEW v \in Workers, Finish(v) \/ WorkerFails(v)
      PROVE  BurstInv'
  <2>1. /\ \A u \in Workers : job'[u] = IF u = v THEN None ELSE job[u]
        /\ events' = events /\ Fades(alarms, alarms') /\ job[v] # None
    BY <1>0, <1>8 DEF Finish, WorkerFails, TypeOK, Fades
  <2>2. \A k : Announced(k)' \subseteq Announced(k)
    BY <2>1 DEF Announced
  <2>3. \A u \in Workers : job'[u] # None => JobServes(job[u])' /\ job'[u] = job[u]
    BY <1>0, <1>2, <2>1, <2>2
  <2>4. ASSUME NEW k \in Keys PROVE StateServes(k)'
    <3>1. CASE states'[k] = states[k]
      BY <1>1, <2>1, <2>2, <3>1
    <3>2. CASE states'[k] # states[k]
      <4> PICK j : j = job[v]
        OBVIOUS
      <4>1. /\ j \in Job /\ JobServes(j) /\ k = j.key
            /\ alarms' = alarms \cup j.raised /\ UNCHANGED <<events, cutoff>>
            /\ states' = [states EXCEPT ![k] =
                 [states[k] EXCEPT !.cursor = j.last, !.next = j.next,
                                   !.done = NewDone(j, states[k])]]
        BY <1>0, <1>8, <2>1, <3>2 DEF Finish, WorkerFails, TypeOK, BurstInv, NewCursor
      <4>2. states[k] \in State
        BY <1>0, <2>1, <4>1 DEF JobsOK, JobOK, Waits, TypeOK
      <4>3. states'[k].cursor = j.last /\ states'[k].next = j.next
        BY <4>1, <4>2 DEF State, TypeOK
      <4> PICK as : as = alarms \cup j.raised
        OBVIOUS
      <4>4. ServedUpTo(k, j.last, as) /\ QuietUntil(k, j.next, j.last, as)
        BY <4>1 DEF JobServes
      <4>5. ServedUpTo(k, j.last, as)' /\ QuietUntil(k, j.next, j.last, as)'
        BY <4>1, <4>4 DEF ServedUpTo, QuietUntil, Owed, AnnouncedBurst, Attempts, Of,
                          Announced, After, Served, Nearby
      <4>6. QED
        BY <4>1, <4>3, <4>5 DEF StateServes
    <3>3. QED
      BY <3>1, <3>2
  <2>5. QED
    BY <2>3, <2>4 DEF BurstInv
<1>9. CASE StartSweep
  <2>1. Fades(alarms, alarms') /\ UNCHANGED <<events, states, job>>
    <3>1. PICK t \in Times : t > cutoff /\ cutoff' = t /\ UNCHANGED <<tables, job>>
      BY <1>9 DEF StartSweep
    <3>2. t \in Int
      BY SizeAssumption DEF Times
    <3>3. QED
      BY <1>0, <3>1, <3>2 DEF Fades
  <2>2. QED
    BY <1>3, <2>1
<1>10. CASE DeleteBatch
  <2>1. Fades(alarms, alarms') /\ UNCHANGED <<states, job>> /\ events' \subseteq events
    BY <1>0, <1>10 DEF DeleteBatch, ExpiredRows, Fades
  <2>2. QED
    BY <1>3, <2>1
<1>11. CASE Forget
  <2>1. /\ Fades(alarms, alarms') /\ UNCHANGED <<events, job>>
        /\ \A k \in Keys : states'[k] = None \/ states'[k] = states[k]
    BY <1>0, <1>11 DEF Forget, Fades
  <2>2. \A k : Announced(k)' \subseteq Announced(k)
    BY <2>1 DEF Announced
  <2>3. \A k \in Keys : StateServes(k)'
    <3>1. ASSUME NEW k \in Keys, states'[k] = None PROVE StateServes(k)'
      BY <3>1 DEF StateServes
    <3>2. QED
      BY <1>1, <2>1, <2>2, <3>1
  <2>4. QED
    BY <1>0, <1>2, <2>1, <2>2, <2>3 DEF BurstInv
<1>12. QED
  BY <1>4, <1>5, <1>6, <1>7, <1>8, <1>9, <1>10, <1>11
     DEF Next, vars, WriterStep, WorkerStep, SweepStep, Receive, LockState, RecordFails, Done,
         FindIdle, LockIdle, SweepFails

\* When the detector of a key has nothing to do, every burst of failed logins that queued
\* it has an alarm less than a window away, if it is within the retention, in whatever
\* order its logins were committed, batched and examined, through failures, sweeps and
\* forgotten states: a login that is committed behind the cursor takes it back.  Logins
\* that count for a hash and queue another key come and go in between, and may turn other
\* logins into bursts, but owe the hash nothing themselves.
THEOREM EveryBurstAlarms == Spec => []BurstsRaiseAlarm
<1>1. QueueInv /\ BurstInv => BurstsRaiseAlarm
  <2> SUFFICES ASSUME QueueInv, BurstInv, NEW k \in Keys, states[k] # None, ~ Waits(k),
                      NEW e \in Announced(k), e.at >= cutoff + Window, AnnouncedBurst(e, k)
               PROVE  \E a \in alarms : a.key = k /\ a.at - e.at \in (1 - Window)..(Window - 1)
    BY DEF BurstsRaiseAlarm
  <2>1. ~ After(e, states[k].cursor)
    BY DEF QueueInv, NothingForgotten
  <2>2. PICK a \in alarms : a.key = k /\ Nearby(a, e)
    BY <2>1 DEF BurstInv, StateServes, ServedUpTo, Owed, Served
  <2>3. a.at \in Int /\ e.at \in Int /\ Window \in Nat
    BY EventFacts, ReportsAreLogins DEF QueueInv
  <2>4. a.at - e.at \in (1 - Window)..(Window - 1)
    BY <2>2, <2>3 DEF Nearby
  <2>5. QED
    BY <2>2, <2>4
<1>2. Init => BurstInv
  BY DEF Init, BurstInv, StateServes
<1>3. TypeOK /\ TypeOK' /\ LocksOK /\ JobsOK /\ BurstInv /\ [Next]_vars => BurstInv'
  BY StepBursts
<1>4. QueueInv /\ QueueInv' /\ BurstInv /\ [Next]_vars => BurstInv'
  BY <1>3 DEF QueueInv
<1>5. QED
  BY <1>1, <1>2, <1>4, Inductive, PTL DEF Spec

(***************************************************************************)
(* Locks.  Writers lock in one order, so that a chain of writers that wait *)
(* for each other climbs in it, and ends.                                  *)
(***************************************************************************)
OrderInv ==
  \A w \in Writers : recording[w] # None =>
    \A k \in held[w], j \in recording[w].keys \ held[w] : KeyOrder[k] < KeyOrder[j]

LEMMA StepOrder ==
  ASSUME TypeOK, LocksOK, OrderInv, [Next]_vars
  PROVE  OrderInv'
<1>1. CASE UNCHANGED <<recording, held>>
  BY <1>1 DEF OrderInv
<1>2. ASSUME NEW w \in Writers, NEW e \in Reports, Receive(w, e), held[w] = {}
      PROVE  OrderInv'
  BY <1>2 DEF Receive, OrderInv, TypeOK
<1>3. ASSUME NEW w \in Writers, LockState(w)
      PROVE  OrderInv'
  <2>1. PICK k \in NextKeys(w) : held' = [held EXCEPT ![w] = @ \cup {k}]
    BY <1>3 DEF LockState
  <2>2. recording' = recording /\ recording[w] # None /\ held'[w] = held[w] \cup {k}
        /\ \A x \in Writers : x # w => held'[x] = held[x]
    BY <1>3, <2>1 DEF LockState, TypeOK
  <2>3. recording[w].keys \subseteq Keys
    BY <2>2, ReportsAreLogins DEF TypeOK
  <2>4. \A j \in recording[w].keys \ held'[w] : KeyOrder[k] < KeyOrder[j]
    BY <2>2, <2>3, KeyAssumption DEF NextKeys
  <2>5. QED
    BY <2>2, <2>4 DEF OrderInv
<1>4. ASSUME NEW w \in Writers, Record(w) \/ RecordFails(w)
      PROVE  OrderInv'
  BY <1>4 DEF Record, RecordFails, Done, OrderInv, TypeOK
<1>5. \A w \in Writers : recording[w] = None => held[w] = {}
  BY DEF LocksOK
<1>6. QED
  BY <1>1, <1>2, <1>3, <1>4, <1>5
     DEF Next, vars, WriterStep, WorkerStep, SweepStep, Receive, Pick, Examine, Finish,
         WorkerFails, StartSweep, DeleteBatch, FindIdle, LockIdle, Forget, SweepFails

\* Of the keys that writers wait for, one is the last in the order.
LEMMA LastKey ==
  ASSUME NEW S, S \subseteq Keys, S # {}
  PROVE  \E k \in S : \A j \in S : ~ (KeyOrder[k] < KeyOrder[j])
<1> DEFINE Above(k) == {j \in Keys : KeyOrder[k] < KeyOrder[j]}
           T == {Above(k) : k \in S}
<1>1. IsWellFoundedOn(StrictSubsetOrdering(Keys), SUBSET Keys)
  BY KeyAssumption, FS_StrictSubsetOrderingWellFounded, FS_FiniteSubsetsOfFinite
<1>2. T \subseteq SUBSET Keys /\ T # {}
  OBVIOUS
<1> HIDE DEF T
<1>3. PICK x \in T : \A y \in T : ~ (<<y, x>> \in StrictSubsetOrdering(Keys))
  BY <1>1, <1>2, WFMin
<1>4. PICK k \in S : x = Above(k)
  BY DEF T
<1>5. ASSUME NEW j \in S, KeyOrder[k] < KeyOrder[j] PROVE FALSE
  <2>1. Above(j) \subseteq Above(k) /\ j \in Above(k) /\ j \notin Above(j)
    BY <1>5, KeyAssumption
  <2>2. Above(j) # Above(k) /\ Above(j) \in T
    BY <2>1 DEF T
  <2>3. <<Above(j), x>> \in StrictSubsetOrdering(Keys)
    BY <1>2, <1>4, <2>1, <2>2 DEF StrictSubsetOrdering
  <2>4. QED
    BY <1>3, <2>2, <2>3
<1>6. QED
  BY <1>5

\* The sweep holds states only while it deletes them.
SweepHolds == sweep.phase # "locking" => sweep.locked = {}

LEMMA StepSweepHolds ==
  ASSUME TypeOK, SweepHolds, [Next]_vars
  PROVE  SweepHolds'
<1>1. CASE UNCHANGED sweep
  BY <1>1 DEF SweepHolds
<1>2. CASE StartSweep \/ Forget \/ SweepFails
  <2>1. Asleep.locked = {} /\ [Asleep EXCEPT !.phase = "rows", !.left = MaxBatches].locked = {}
    BY DEF Asleep
  <2>2. QED
    BY <1>2, <2>1 DEF StartSweep, Forget, SweepFails, SweepHolds
<1>3. CASE DeleteBatch
  BY <1>3 DEF DeleteBatch, SweepHolds, TypeOK, Sweep
<1>4. CASE FindIdle \/ LockIdle
  BY <1>4 DEF FindIdle, LockIdle, SweepHolds, TypeOK, Sweep
<1>5. QED
  BY <1>1, <1>2, <1>3, <1>4
     DEF Next, vars, WriterStep, WorkerStep, SweepStep, Receive, LockState, Record, RecordFails,
         Done, Pick, Examine, Finish, WorkerFails

LEMMA NoRingOfWriters ==
  ASSUME TypeOK, LocksOK, OrderInv, SweepHolds, sweep.phase # "locking"
  PROVE  WritersGoOn
<1> SUFFICES ASSUME \E w \in Writers : WriterBlocked(w),
                    \A w \in Writers : recording[w] # None => WriterBlocked(w),
                    \A v \in Workers : job[v] = None
             PROVE  FALSE
  BY DEF WritersGoOn
<1> DEFINE Wanted == {k \in Keys : \E w \in Writers :
                        recording[w] # None /\ k \in NextKeys(w) /\ ~ Free(k)}
<1>1. Wanted # {}
  <2>1. PICK w \in Writers : recording[w] # None /\ \E k \in NextKeys(w) : ~ Free(k)
    BY DEF WriterBlocked
  <2>2. NextKeys(w) \subseteq Keys
    BY <2>1, ReportsAreLogins DEF NextKeys, TypeOK
  <2>3. QED
    BY <2>1, <2>2
<1>2. PICK k \in Wanted : \A j \in Wanted : ~ (KeyOrder[k] < KeyOrder[j])
  BY <1>1, LastKey
<1>3. PICK w \in Writers : k \in held[w]
  BY DEF Free, SweepHolds
<1>4. recording[w] # None /\ recording[w].keys \subseteq Keys
  BY <1>3, ReportsAreLogins DEF LocksOK, TypeOK
<1>5. PICK j \in NextKeys(w) : ~ Free(j)
  BY <1>4 DEF WriterBlocked
<1>6. j \in recording[w].keys \ held[w] /\ j \in Wanted
  BY <1>4, <1>5 DEF NextKeys
<1>7. KeyOrder[k] < KeyOrder[j]
  BY <1>3, <1>4, <1>6 DEF OrderInv
<1>8. QED
  BY <1>2, <1>6, <1>7

\* The transactions that record logins never wait for each other for good: they lock the
\* states of a login in one order of all keys.  Only while the retention worker deletes
\* states, which it locks in no order, may everybody wait (the stuck run).
THEOREM WritersKeepGoing == Spec => [](sweep.phase # "locking" => WritersGoOn)
<1>1. Init => OrderInv /\ SweepHolds
  BY DEF Init, OrderInv, SweepHolds, Asleep
<1>2. QueueInv /\ OrderInv /\ SweepHolds /\ [Next]_vars => OrderInv' /\ SweepHolds'
  BY StepOrder, StepSweepHolds DEF QueueInv
<1>3. QueueInv /\ OrderInv /\ SweepHolds => (sweep.phase # "locking" => WritersGoOn)
  BY NoRingOfWriters DEF QueueInv
<1>4. QED
  BY <1>1, <1>2, <1>3, Inductive, PTL DEF Spec
=============================================================================
