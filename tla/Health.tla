-------------------------------- MODULE Health --------------------------------
(***************************************************************************)
(* The health of the security log (security-events/health): every process  *)
(* reports what its writers and its detector did in one table row for each *)
(* part, remembers a failure until it is written, and answers managers     *)
(* from the rows it has read and from what it remembers.                   *)
(***************************************************************************)
EXTENDS Desk

CONSTANTS
  Processes,       \* the instances of the API
  Askers,          \* those the managers ask
  Restarting,      \* those that may end and start again
  Reports, ReportBy, ReportPart,   \* the reports they make, of which part
  Throttle,        \* 5 s, in ticks
  FailureWindow,   \* 5 minutes
  FreshWindow      \* 30 s

ASSUME HealthAssumption ==
  /\ None \notin Reports \cup Processes \cup Nat \cup [at : Nat, by : Reports]
  /\ {Throttle, FailureWindow, FreshWindow} \subseteq Nat
  /\ Askers \subseteq Processes /\ Restarting \subseteq Processes
  /\ ReportBy \in [Reports -> Processes]
  /\ ReportPart \in [Reports -> {"WRITER", "DETECTOR"}]

VARIABLES
  health,     \* security_monitor_health
  pendings,   \* pendingFailures, an object each: the report that made it and its time
  lasts,      \* lastReports
  reports,
  answers     \* getSecurityCollectionStatus, between its reading and its answer

healthVars == <<health, pendings, lasts, reports, answers>>

Parts == {"WRITER", "DETECTOR"}
Date == [at : Nat, by : Reports]
HealthRow == [success : Null(Nat), failure : Null(Nat)]
ReportRow == [state : {"new", "writing", "written", "missed", "skipped", "lost"},
              ok : BOOLEAN, at : Nat, failure : Null(Date)]
AnswerRow == [state : {"none", "read", "given"}, rows : [Parts -> HealthRow],
              written : SUBSET Reports, says : {"", "OK", "DEGRADED", "UNKNOWN"}, at : Nat]

NoRows == [c \in Parts |-> [success |-> None, failure |-> None]]
NotAsked == [state |-> "none", rows |-> NoRows, written |-> {}, says |-> "", at |-> 0]

HealthInit ==
  /\ health = NoRows
  /\ pendings = [p \in Processes |-> [c \in Parts |-> None]]
  /\ lasts = [p \in Processes |-> [c \in Parts |-> None]]
  /\ reports = [r \in Reports |-> [state |-> "new", ok |-> TRUE, at |-> 0, failure |-> None]]
  /\ answers = [p \in Askers |-> NotAsked]

HealthTypeOK ==
  /\ health \in [Parts -> HealthRow]
  /\ pendings \in [Processes -> [Parts -> Null(Date)]]
  /\ lasts \in [Processes -> [Parts -> Null(Nat)]]
  /\ reports \in [Reports -> ReportRow]
  /\ answers \in [Askers -> AnswerRow]

\* The detector of a process runs one round at a time; its writers do not wait.
Busy(p, c) ==
  c = "DETECTOR" /\ \E r \in Reports : /\ reports[r].state = "writing"
                                       /\ ReportBy[r] = p /\ ReportPart[r] = c

Throttled(p, c) ==
  /\ pendings[p][c] = None
  /\ lasts[p][c] # None
  /\ now - lasts[p][c] < Throttle

\* A report: a failure is remembered at once, a success may be left out.
Report(r, ok) ==
  LET p == ReportBy[r]  c == ReportPart[r]
      date == [at |-> now, by |-> r]
      failure == IF ok THEN pendings[p][c] ELSE date
  IN /\ reports[r].state = "new" /\ ~Busy(p, c)
     /\ pendings' = [pendings EXCEPT ![p][c] = failure]
     /\ reports' = [reports EXCEPT ![r] =
          [state |-> IF ok /\ Throttled(p, c) THEN "skipped" ELSE "writing",
           ok |-> ok, at |-> now, failure |-> failure]]
     /\ UNCHANGED <<health, lasts, answers, now>>

Greatest(x, y) == IF x = None THEN y ELSE IF y = None THEN x ELSE IF x < y THEN y ELSE x
DateAt(d) == IF d = None THEN None ELSE d.at

LastWins(r) ==   \* mutant
  LET row == health[ReportPart[r]]
  IN [success |-> IF reports[r].ok THEN reports[r].at ELSE row.success,
      failure |-> IF reports[r].failure = None THEN row.failure ELSE reports[r].failure.at]
Upserted(r) ==
  LET row == health[ReportPart[r]]
  IN [success |-> Greatest(row.success, IF reports[r].ok THEN reports[r].at ELSE None),
      failure |-> Greatest(row.failure, DateAt(reports[r].failure))]

\* The write is done: what it wrote is forgotten, a failure remembered since is not.
ForgetsAll(r) == None   \* mutant
StillPending(r) ==
  LET pending == pendings[ReportBy[r]][ReportPart[r]]
  IN IF pending = reports[r].failure THEN None ELSE pending

\* The write and its answer are one step: nothing reads the row in between that
\* would not see it a step later.
ReportWritten(r) ==
  LET p == ReportBy[r]  c == ReportPart[r]
  IN /\ reports[r].state = "writing"
     /\ health' = [health EXCEPT ![c] = Upserted(r)]
     /\ lasts' = [lasts EXCEPT ![p][c] = reports[r].at]
     /\ pendings' = [pendings EXCEPT ![p][c] = StillPending(r)]
     /\ reports' = [reports EXCEPT ![r].state = "written"]
     /\ UNCHANGED <<answers, now>>

\* The write failed, or its answer was lost: that is a failure to remember.
ReportMissed(r) ==
  LET p == ReportBy[r]  c == ReportPart[r]
  IN /\ reports[r].state = "writing"
     /\ \/ UNCHANGED health
        \/ health' = [health EXCEPT ![c] = Upserted(r)]
     /\ pendings' = [pendings EXCEPT ![p][c] =
                       IF @ # None THEN @ ELSE [at |-> reports[r].at, by |-> r]]
     /\ reports' = [reports EXCEPT ![r].state = "missed"]
     /\ UNCHANGED <<lasts, answers, now>>

\* A process that ends takes what it remembers with it.
Restart(p) ==
  /\ pendings' = [pendings EXCEPT ![p] = [c \in Parts |-> None]]
  /\ lasts' = [lasts EXCEPT ![p] = [c \in Parts |-> None]]
  /\ reports' = [r \in Reports |-> IF ReportBy[r] = p /\ reports[r].state \in {"writing", "missed"}
                                   THEN [reports[r] EXCEPT !.state = "lost"] ELSE reports[r]]
  /\ answers' = [q \in Askers |-> IF q = p /\ answers[p].state = "read"
                                   THEN NotAsked ELSE answers[q]]
  /\ UNCHANGED <<health, now>>

\* Asking once is enough: the question may come at any time.
StatusRead(p) ==
  /\ answers[p].state = "none"
  /\ answers' = [answers EXCEPT ![p] =
       [state |-> "read", rows |-> health, says |-> "", at |-> now,
        written |-> {r \in Reports : reports[r].state = "written" /\ ~reports[r].ok}]]
  /\ UNCHANGED <<health, pendings, lasts, reports, now>>

Recent(at, window) == at # None /\ now - at < window

\* The waiting states of the detector make it DEGRADED as well (module Detection).
StatusAnswer(p) ==
  LET rows == answers[p].rows
      says == IF \/ \E c \in Parts : pendings[p][c] # None
                 \/ \E c \in Parts : Recent(rows[c].failure, FailureWindow)
              THEN {"DEGRADED"}
              ELSE IF rows["DETECTOR"].success = None THEN {"UNKNOWN"}
              ELSE IF now - rows["DETECTOR"].success > FreshWindow THEN {"DEGRADED"}
              ELSE {"OK", "DEGRADED"}
  IN /\ answers[p].state = "read"
     /\ \E s \in says \cup {"UNKNOWN"} :
          answers' = [answers EXCEPT ![p] = [@ EXCEPT !.state = "given", !.rows = NoRows,
                                                       !.says = s, !.at = now]]
     /\ UNCHANGED <<health, pendings, lasts, reports, now>>

HealthTick == Later /\ UNCHANGED healthVars

HealthNext ==
  \/ HealthTick
  \/ \E r \in Reports : \/ \E ok \in BOOLEAN : Report(r, ok)
                        \/ ReportWritten(r) \/ ReportMissed(r)
  \/ \E p \in Restarting : Restart(p)
  \/ \E p \in Askers : StatusRead(p) \/ StatusAnswer(p)
HealthSpec == HealthInit /\ now = 0 /\ [][HealthNext]_<<healthVars, now>>

\* A reported failure is in the table or in the memory of its process, whatever
\* reports overlap with it and whichever of their writes fail, until the process
\* ends. (A success whose own write fails beside a remembered failure keeps the
\* earlier time.)
FailureKept ==
  \A r \in Reports :
    ~reports[r].ok /\ reports[r].state \in {"writing", "written", "missed"} =>
      LET p == ReportBy[r]  c == ReportPart[r]
      IN \/ pendings[p][c] # None
         \/ health[c].failure # None /\ health[c].failure >= reports[r].at

\* No process answers OK while a failure that any of them had written before it
\* read the rows is recent: a later write of an older failure does not hide it.
WrittenFailureShows ==
  \A p \in Askers :
    answers[p].state = "given" /\ answers[p].says = "OK" =>
      \A r \in answers[p].written : answers[p].at - reports[r].at >= FailureWindow

\* A failure is not forgotten before it is written, and shows from then on.
FailuresShow == FailureKept /\ WrittenFailureShows
=============================================================================
