----------------------------- MODULE Detection -----------------------------
(***************************************************************************)
(* Repeated failed logins: services/security-events record, detection and  *)
(* retention.  A writer records one failed login in one transaction that   *)
(* locks, in a fixed order, the detection state of every key (rule, scope, *)
(* subject) the login counts for.  A worker locks one state nobody holds   *)
(* and examines what is new for its key, one login at a time, with its     *)
(* writes invisible until it commits.  The sweep removes what is expired.  *)
(* All of them may fail and roll back at any step.                         *)
(*                                                                         *)
(* A login carries the keys it queues (detectionKeys) and those whose      *)
(* queries find it (subjectWhere).  They are the same but for the hash of  *)
(* an e-mail: it finds every login with that e-mail, and a login whose     *)
(* account is known queues only the account.  Such a login counts for the  *)
(* hash without locking, rewinding or waking anything.                     *)
(*                                                                         *)
(* Times are ticks, as large as needed for a window to have an inside and  *)
(* two ends.  Masked names, addresses, projections for schools and events  *)
(* that queue no key are left out.                                         *)
(***************************************************************************)
EXTENDS Integers, FiniteSets

CONSTANTS
  Writers, Workers,
  Keys, KeyOrder,    \* the keys, and the order writers lock them in
  Reports,           \* the failed logins that may be reported, each once
  Latest,            \* the last moment (bound)
  Window, Threshold, \* WINDOW_MS; failures that make an alarm, per key
  BatchSize,         \* logins examined in one transaction of a worker
  Sweeping,          \* does the retention worker run?
  SweepBatch, MaxBatches,
  MaxFaults,         \* transactions that roll back (bound)
  None

Times == 0..Latest
\* keys: queued by the login; matches: the keys whose queries find it.
Login == [id : Nat \ {0}, at : Times, keys : SUBSET Keys, matches : SUBSET Keys]
Alarm == [key : Keys, at : Times]
\* Where a worker has got to: before every login, or after the login at that place.
Position == [at : Times \cup {-1}, id : Nat]
Start == [at |-> -1, id |-> 0]
State == [queued : Nat, done : Nat, cursor : Position, next : Nat \cup {None},
          active : Times]
\* A worker's transaction: its state, the logins it loaded and has not examined.
Job == [key : Keys, todo : SUBSET Login, more : BOOLEAN, last : Position,
        next : Nat \cup {None}, raised : SUBSET Alarm]

ASSUME NoneAssumption == None \notin State \cup Job \cup Reports
ASSUME SizeAssumption ==
  /\ Latest \in Nat /\ Window \in Nat \ {0} /\ BatchSize \in Nat \ {0}
  /\ SweepBatch \in Nat \ {0} /\ MaxBatches \in Nat \ {0} /\ MaxFaults \in Nat
  /\ Threshold \in [Keys -> Nat \ {0}] /\ Sweeping \in BOOLEAN
ASSUME KeyAssumption ==
  /\ IsFiniteSet(Keys) /\ KeyOrder \in [Keys -> Nat]
  /\ \A j, k \in Keys : KeyOrder[j] = KeyOrder[k] => j = k
ASSUME ReportAssumption ==
  /\ Reports \subseteq Login /\ IsFiniteSet(Reports)
  /\ \A d, e \in Reports : d.id = e.id => d = e
  /\ \A e \in Reports : e.keys \subseteq e.matches

VARIABLES
  events, alarms,  \* the security_events table
  states,          \* the security_detection_states table
  reported,        \* the logins received so far
  recording, held, \* per writer: the login it records, the states it has locked
  job,             \* per worker: the state it has locked and what it found so far
  sweep,           \* the retention worker
  cutoff,          \* everything older is expired
  faults

tables == <<events, alarms, states>>
writing == <<reported, recording, held>>
vars == <<tables, writing, job, sweep, cutoff, faults>>

-----------------------------------------------------------------------------
After(e, pos) == e.at > pos.at \/ (e.at = pos.at /\ e.id > pos.id)
Of(k) == {e \in events : k \in e.matches}
Announced(k) == {e \in events : k \in e.keys}
Fresh(k) == {e \in Of(k) : After(e, states[k].cursor)}
Waits(k) == states[k] # None /\ states[k].done < states[k].queued
Pending == {k \in Keys : Waits(k)}

Free(k) ==
  /\ \A w \in Writers : k \notin held[w]
  /\ \A v \in Workers : job[v] # None => job[v].key # k
  /\ k \notin sweep.locked

\* The login with those of its window before it.
Attempts(e, k) ==
  {f \in Of(k) : f.at > e.at - Window /\ (f.at < e.at \/ (f.at = e.at /\ f.id <= e.id))}
Burst(e, k) == Cardinality(Attempts(e, k)) >= Threshold[k]
AnnouncedBurst(e, k) == Cardinality(Attempts(e, k) \cap Announced(k)) >= Threshold[k]

-----------------------------------------------------------------------------
(* recordSecurityEvent. *)

\* Logins are recorded soon after they happened, retention is far behind.
Receive(w, e) ==
  /\ recording[w] = None
  /\ e \notin reported /\ e.at >= cutoff + Window
  /\ recording' = [recording EXCEPT ![w] = e]
  /\ reported' = reported \cup {e}
  /\ UNCHANGED <<tables, held, job, sweep, cutoff, faults>>

AnyKey(w) == recording[w].keys \ held[w]  \* mutant: locks in no order
NextKeys(w) ==
  {k \in recording[w].keys \ held[w] :
     \A j \in recording[w].keys \ held[w] : KeyOrder[k] <= KeyOrder[j]}

LockState(w) ==
  /\ recording[w] # None
  /\ \E k \in NextKeys(w) :
       /\ Free(k)
       /\ held' = [held EXCEPT ![w] = @ \cup {k}]
  /\ UNCHANGED <<tables, reported, recording, job, sweep, cutoff, faults>>

\* The upsert of a state, and the rewind when its worker is already past the login.
Late(s, e) == s.cursor.at >= e.at
Rewound(s, e) == [s EXCEPT !.cursor = [at |-> e.at - 1, id |-> 0]]  \* mutant: keeps next
Rewind(s, e) == [s EXCEPT !.cursor = [at |-> e.at - 1, id |-> 0], !.next = None]
NewState(e) ==
  [queued |-> 1, done |-> 0, cursor |-> Start, next |-> None, active |-> e.at]
Queue(s, e) ==
  IF s = None THEN NewState(e)
  ELSE LET bumped == [s EXCEPT !.queued = @ + 1, !.active = e.at]
       IN IF Late(s, e) THEN Rewind(bumped, e) ELSE bumped

Done(w) ==
  /\ recording' = [recording EXCEPT ![w] = None]
  /\ held' = [held EXCEPT ![w] = {}]
  /\ UNCHANGED <<reported, alarms, job, sweep, cutoff>>

Record(w) ==
  /\ recording[w] # None /\ held[w] = recording[w].keys
  /\ LET e == recording[w] IN
     /\ events' = events \cup {e}
     /\ states' = [k \in Keys |-> IF k \in e.keys THEN Queue(states[k], e) ELSE states[k]]
  /\ Done(w)
  /\ UNCHANGED faults

\* Three seconds are over, an error, a crash: the login is lost.
RecordFails(w) ==
  /\ recording[w] # None /\ faults < MaxFaults
  /\ faults' = faults + 1
  /\ Done(w)
  /\ UNCHANGED <<events, states>>

-----------------------------------------------------------------------------
(* processOne. *)

\* The oldest BatchSize logins after the cursor.
Batch(k) ==
  {e \in Fresh(k) : Cardinality({f \in Fresh(k) : After(e, f)}) < BatchSize}

Pick(v) ==
  /\ job[v] = None
  /\ \E k \in Pending :
       /\ Free(k)
       /\ \A j \in Pending : Free(j) => states[k].active <= states[j].active
       /\ job' = [job EXCEPT ![v] =
            [key |-> k, todo |-> Batch(k), more |-> Cardinality(Fresh(k)) > BatchSize,
             last |-> states[k].cursor, next |-> states[k].next, raised |-> {}]]
  /\ UNCHANGED <<tables, writing, sweep, cutoff, faults>>

Earlier(a, e) == a.at > e.at - Window /\ a.at <= e.at  \* mutant: looks back only
Nearby(a, e) == a.at > e.at - Window /\ a.at < e.at + Window
NearAlarms(e, k, raised) == {a \in alarms \cup raised : a.key = k /\ Nearby(a, e)}

\* What a worker makes of the next login: not a burst, one that has its alarm, a new one.
Ineligible(j, e) == j.next # None /\ e.at < j.next
Examined(j, e) == [j EXCEPT !.todo = @ \ {e}, !.last = [at |-> e.at, id |-> e.id]]
Suppressed(j, e, a) == [Examined(j, e) EXCEPT !.next = a.at + Window]
Raised(j, e) ==
  [Examined(j, e) EXCEPT !.next = e.at + Window,
                         !.raised = @ \cup {[key |-> j.key, at |-> e.at]}]
Verdicts(j, e) ==
  LET near == NearAlarms(e, j.key, j.raised) IN
  IF Ineligible(j, e) \/ ~ Burst(e, j.key) THEN {Examined(j, e)}
  ELSE IF near = {} THEN {Raised(j, e)}
  ELSE {Suppressed(j, e, a) : a \in {b \in near : \A c \in near : c.at <= b.at}}

Examine(v) ==
  /\ job[v] # None
  /\ \E e \in job[v].todo :
       /\ \A f \in job[v].todo : f = e \/ After(f, e)
       /\ \E j \in Verdicts(job[v], e) : job' = [job EXCEPT ![v] = j]
  /\ UNCHANGED <<tables, writing, sweep, cutoff, faults>>

SameCursor(j, s) == IF j.more THEN s.cursor ELSE j.last  \* mutant: no progress in between
NewCursor(j, s) == j.last
AllDone(j, s) == s.queued  \* mutant: a full batch counts as everything
Ahead(j, s) ==  \* mutant: counts the generation that comes next
  IF j.more THEN s.done ELSE s.queued + 1
NewDone(j, s) == IF j.more THEN s.done ELSE s.queued

Finish(v) ==
  /\ job[v] # None /\ job[v].todo = {}
  /\ LET j == job[v]
         s == states[j.key]
     IN /\ alarms' = alarms \cup j.raised
        /\ states' = [states EXCEPT ![j.key] =
             [s EXCEPT !.cursor = NewCursor(j, s), !.next = j.next,
                       !.done = NewDone(j, s)]]
  /\ job' = [job EXCEPT ![v] = None]
  /\ UNCHANGED <<events, writing, sweep, cutoff, faults>>

WorkerFails(v) ==
  /\ job[v] # None /\ faults < MaxFaults
  /\ faults' = faults + 1
  /\ job' = [job EXCEPT ![v] = None]
  /\ UNCHANGED <<tables, writing, sweep, cutoff>>

-----------------------------------------------------------------------------
(* pruneExpiredSecurityEvents: batches of rows, then one DELETE of states.  *)

Asleep == [phase |-> "asleep", left |-> 0, todo |-> {}, locked |-> {}]
StartSweep ==
  /\ Sweeping /\ sweep.phase = "asleep"
  /\ \E t \in Times :
       /\ t > cutoff
       /\ \A w \in Writers : recording[w] # None => recording[w].at >= t + Window
       /\ cutoff' = t
  /\ sweep' = [Asleep EXCEPT !.phase = "rows", !.left = MaxBatches]
  /\ UNCHANGED <<tables, writing, job, faults>>

ExpiredRows == {x \in events \cup alarms : x.at < cutoff}
DeleteBatch ==
  /\ sweep.phase = "rows"
  /\ \E gone \in SUBSET ExpiredRows :
       LET n == Cardinality(gone) IN
       /\ n = SweepBatch \/ (n < SweepBatch /\ gone = ExpiredRows)
       /\ \A x \in gone, y \in ExpiredRows \ gone : x.at <= y.at
       /\ events' = events \ gone /\ alarms' = alarms \ gone
       /\ sweep' = IF n < SweepBatch \/ sweep.left = 1
                   THEN [sweep EXCEPT !.phase = "states"] ELSE [sweep EXCEPT !.left = @ - 1]
  /\ UNCHANGED <<states, writing, job, cutoff, faults>>

Idle(k) == states[k] # None /\ states[k].active < cutoff /\ ~ Waits(k)

\* The DELETE takes the idle states of its snapshot one by one, waiting for those that
\* are locked; a state that was queued meanwhile is left alone.
FindIdle ==
  /\ sweep.phase = "states"
  /\ sweep' = [sweep EXCEPT !.phase = "locking", !.todo = {k \in Keys : Idle(k)}]
  /\ UNCHANGED <<tables, writing, job, cutoff, faults>>
LockIdle ==
  /\ sweep.phase = "locking"
  /\ \E k \in sweep.todo :
       /\ Free(k)
       /\ sweep' = [sweep EXCEPT !.todo = @ \ {k},
                                 !.locked = IF Idle(k) THEN @ \cup {k} ELSE @]
  /\ UNCHANGED <<tables, writing, job, cutoff, faults>>
Forget ==
  /\ sweep.phase = "locking" /\ sweep.todo = {}
  /\ states' = [k \in Keys |-> IF k \in sweep.locked THEN None ELSE states[k]]
  /\ sweep' = Asleep
  /\ UNCHANGED <<events, alarms, writing, job, cutoff, faults>>
SweepFails ==
  /\ sweep.phase # "asleep" /\ faults < MaxFaults
  /\ faults' = faults + 1
  /\ sweep' = Asleep
  /\ UNCHANGED <<tables, writing, job, cutoff>>

-----------------------------------------------------------------------------
Init ==
  /\ events = {} /\ alarms = {}
  /\ states = [k \in Keys |-> None]
  /\ reported = {}
  /\ recording = [w \in Writers |-> None] /\ held = [w \in Writers |-> {}]
  /\ job = [v \in Workers |-> None]
  /\ sweep = Asleep /\ cutoff = -Window
  /\ faults = 0

WriterStep(w) == LockState(w) \/ Record(w)
WorkerStep(v) == Pick(v) \/ Examine(v) \/ Finish(v)
SweepStep == StartSweep \/ DeleteBatch \/ FindIdle \/ LockIdle \/ Forget

Next ==
  \/ \E w \in Writers : (\E e \in Reports : Receive(w, e)) \/ WriterStep(w) \/ RecordFails(w)
  \/ \E v \in Workers : WorkerStep(v) \/ WorkerFails(v)
  \/ SweepStep \/ SweepFails

Spec == Init /\ [][Next]_vars
\* Node runs handlers whose promise has settled; the worker's timer fires again.
FairSpec ==
  /\ Spec
  /\ \A w \in Writers : WF_vars(WriterStep(w))
  /\ \A v \in Workers : WF_vars(WorkerStep(v))

-----------------------------------------------------------------------------
(* Properties. *)

Sweep == [phase : {"asleep", "rows", "states", "locking"}, left : 0..MaxBatches,
          todo : SUBSET Keys, locked : SUBSET Keys]

\* Rows fit the schema; cursors are places in time, and no state is done with more
\* than was queued.
TypeOK ==
  /\ events \subseteq Reports /\ alarms \subseteq Alarm
  /\ states \in [Keys -> State \cup {None}]
  /\ \A k \in Keys : states[k] # None => states[k].done <= states[k].queued
  /\ reported \subseteq Reports
  /\ recording \in [Writers -> Reports \cup {None}] /\ held \in [Writers -> SUBSET Keys]
  /\ job \in [Workers -> Job \cup {None}]
  /\ sweep \in Sweep /\ (sweep.phase = "rows" => sweep.left > 0)
  /\ cutoff \in Times \cup {-Window} /\ faults \in 0..MaxFaults

\* No wake-up is lost: a login that queued a key whose worker has not come to it is
\* announced by the generations (doneGeneration is set to the one read, under the lock).
NothingForgotten ==
  \A k \in Keys : \A e \in Announced(k) :
    states[k] # None /\ After(e, states[k].cursor) => Waits(k)

\* detection.ts: "suppress duplicates in either direction around an already emitted
\* alarm": two alarms of one key are at least a window apart, late logins or not.
AlarmsApart ==
  \A a, b \in alarms :
    a.key = b.key /\ a # b => a.at >= b.at + Window \/ b.at >= a.at + Window

\* When a key is quiet, every burst of failures that queued it has an alarm less than a
\* window away, in whatever order its logins were committed, batched and examined.  One
\* that only logins of a known account complete for the hash of an e-mail may have none:
\* they wake the worker of their account, and nobody looks at the hash.
BurstsRaiseAlarm ==
  \A k \in Keys : states[k] # None /\ ~ Waits(k) =>
    \A e \in Announced(k) : e.at >= cutoff + Window /\ AnnouncedBurst(e, k) =>
      \E a \in alarms : a.key = k /\ a.at - e.at \in (1 - Window)..(Window - 1)

\* retention.ts: "lock-safe batches so normal writes can continue": transactions that
\* hold locks never all wait for each other.
WriterBlocked(w) == recording[w] # None /\ \E k \in NextKeys(w) : ~ Free(k)
SweepBlocked == sweep.todo # {} /\ \A k \in sweep.todo : ~ Free(k)
WritersGoOn ==
  (\E w \in Writers : WriterBlocked(w)) =>
    \/ \E w \in Writers : recording[w] # None /\ ~ WriterBlocked(w)
    \/ \E v \in Workers : job[v] # None
    \/ sweep.phase = "locking" /\ ~ SweepBlocked

\* Every login that waits for the detector is examined, whatever fails in between.
QueueDrains == \A k \in Keys : Waits(k) ~> ~ Waits(k)

\* What makes these inductive.  Nobody shares a lock, and a writer only locks its keys.
LocksOK ==
  /\ \A w \in Writers :
       /\ recording[w] = None => held[w] = {}
       /\ recording[w] # None => held[w] \subseteq recording[w].keys
       /\ \A v \in Workers : job[v] # None => job[v].key \notin held[w]
       /\ sweep.locked \cap held[w] = {}
  /\ \A v \in Workers : job[v] # None =>
       /\ job[v].key \notin sweep.locked
       /\ \A u \in Workers \ {v} : job[u] # None => job[u].key # job[v].key

\* A worker has loaded every announced login after its place, or knows there is more.
JobOK(j) ==
  /\ Waits(j.key)
  /\ \A e \in j.todo : After(e, j.last)
  /\ j.more \/ \A e \in Announced(j.key) : After(e, j.last) => e \in j.todo
JobsOK == \A v \in Workers : job[v] # None => JobOK(job[v])

\* The alarms a worker is about to insert keep their distance as well.
RaisedOK ==
  \A v \in Workers : job[v] # None =>
    /\ \A a \in job[v].raised : a.key = job[v].key
    /\ \A a, b \in alarms \cup job[v].raised :
         a.key = b.key /\ a # b => a.at >= b.at + Window \/ b.at >= a.at + Window

QueueInv == TypeOK /\ LocksOK /\ JobsOK /\ NothingForgotten
AlarmInv == AlarmsApart /\ RaisedOK
=============================================================================
