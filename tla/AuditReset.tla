------------------------------ MODULE AuditReset ------------------------------
(***************************************************************************)
(* The reset of an audit database (services/auditReset): an admin is shown *)
(* what would be counted afterwards, confirms it, and a transaction removes*)
(* the rest, while other admins reset as well and users go on editing.     *)
(*                                                                         *)
(* The transaction is READ COMMITTED. Every table is read when it starts,  *)
(* so that a TRUNCATE (a full reset, the demo seed) waits for its end.     *)
(***************************************************************************)
EXTENDS Desk

CONSTANTS
  AuditAccounts, RoleOf,             \* users by their Auth identity, and their roles
  AuditSchools,
  Technician,                        \* ADMIN_ACCOUNT
  FixtureAccounts, FixtureSchool,    \* what seedAuditFixture creates
  AuditRows, AuditWork,              \* the rows there are at first
  Resets, OperationOf,               \* requests, and the operation of each
  ConfirmationLife,                  \* 10 minutes, in ticks
  EditLimit                          \* bound on the edits of others

ASSUME AuditAssumption ==
  /\ None \notin AuditAccounts \cup AuditSchools \cup Resets
  /\ RoleOf \in [AuditAccounts -> {"ADMIN", "MANAGER", "INSTRUCTOR", "STUDENT"}]
  /\ Technician \in FixtureAccounts /\ FixtureAccounts \subseteq AuditAccounts
  /\ RoleOf[Technician] = "ADMIN"
  /\ FixtureSchool \in AuditSchools
  /\ \E a \in FixtureAccounts : RoleOf[a] = "MANAGER"
  /\ ConfirmationLife \in Nat /\ EditLimit \in Nat

VARIABLES
  accounts,   \* users and instructor_schools: None, or the school of the row
  owners,     \* driving_schools: None, or the owner of the row
  work,       \* how many courses, lessons, events and vehicles
  authAdmin,  \* whether Auth knows the technical administrator
  auditLock,  \* pg_try_advisory_xact_lock
  resets,
  edits

auditTables == <<accounts, owners, work>>
auditVars == <<auditTables, authAdmin, auditLock, resets, edits>>

Levels == {"managers", "schools", "instructors"}
Operations == Levels \cup {"full", "fixture"}
AuditRow == [school : Null(AuditSchools)]
NothingKept == [schools |-> {}, users |-> {}]
NothingDoomed == [schools |-> {}, work |-> 0]
ResetRow == [state : {"new", "shown", "auth", "ready", "locked", "deleting", "done", "refused"},
             at : Nat, kept : [schools : SUBSET AuditSchools, users : SUBSET AuditAccounts],
             doomed : [schools : SUBSET AuditSchools, work : Nat], edits : Nat]

\* The rows there are at first, which are those the demo seed creates: its users have
\* the technical administrator among them, and every link leads to a row.
ASSUME RowsAssumption ==
  /\ None \notin AuditRow
  /\ AuditRows.accounts \in [AuditAccounts -> Null(AuditRow)]
  /\ AuditRows.owners \in [AuditSchools -> Null(AuditAccounts)]
  /\ AuditWork \in Nat
  /\ AuditRows.accounts[Technician] # None
  /\ \A s \in AuditSchools :
       LET o == AuditRows.owners[s] IN o # None => AuditRows.accounts[o] # None
  /\ \A a \in AuditAccounts :
       AuditRows.accounts[a] # None =>
         LET s == AuditRows.accounts[a].school IN s # None => AuditRows.owners[s] # None

AuditInit ==
  /\ accounts = AuditRows.accounts /\ owners = AuditRows.owners /\ work = AuditWork
  /\ authAdmin = FALSE /\ auditLock = None /\ edits = 0
  /\ resets = [r \in Resets |-> [state |-> "new", at |-> 0, shown |-> None, kept |-> NothingKept,
                                 doomed |-> NothingDoomed, edits |-> 0]]

Here == {a \in AuditAccounts : accounts[a] # None}
HereAs(role) == {a \in Here : RoleOf[a] = role}
Standing == {s \in AuditSchools : owners[s] # None}

AuditTypeOK ==
  /\ accounts \in [AuditAccounts -> Null(AuditRow)]
  /\ owners \in [AuditSchools -> Null(AuditAccounts)]
  /\ work \in Nat /\ authAdmin \in BOOLEAN
  /\ auditLock \in Null(Resets) /\ edits \in 0..EditLimit
  /\ \A r \in Resets :
       [k \in DOMAIN resets[r] \ {"shown"} |-> resets[r][k]] \in ResetRow
  /\ \A s \in Standing : accounts[owners[s]] # None
  /\ \A a \in Here : accounts[a].school # None => accounts[a].school \in Standing

(* ---------------------------------------------------------------- preview *)
\* retention
KeptSchools(level) ==
  IF level \in {"schools", "instructors"}
  THEN {s \in Standing : RoleOf[owners[s]] = "MANAGER"} ELSE {}
KeptInstructors(level) ==
  IF level = "instructors"
  THEN {a \in HereAs("INSTRUCTOR") : accounts[a].school \in KeptSchools(level)} ELSE {}
ManagersOnly(level) ==   \* mutant
  [schools |-> KeptSchools(level), users |-> HereAs("MANAGER") \cup KeptInstructors(level)]
Kept(level) ==
  [schools |-> KeptSchools(level),
   users |-> HereAs("ADMIN") \cup HereAs("MANAGER") \cup KeptInstructors(level)]

\* summarize: only how many rows there are of each kind.
Summary ==
  [admins |-> Cardinality(HereAs("ADMIN")), managers |-> Cardinality(HereAs("MANAGER")),
   instructors |-> Cardinality(HereAs("INSTRUCTOR")),
   students |-> Cardinality(HereAs("STUDENT")), schools |-> Cardinality(Standing),
   work |-> work]
Retained(op) ==
  LET full == op \in {"full", "fixture"}
  IN [admins |-> IF full THEN 0 ELSE Summary.admins,
      managers |-> IF full THEN 0 ELSE Summary.managers,
      instructors |-> Cardinality(KeptInstructors(op)),
      students |-> 0, schools |-> Cardinality(KeptSchools(op)), work |-> 0]
Preview(op) ==
  [before |-> Summary, retained |-> Retained(op),
   canExecute |-> op \in {"full", "fixture"} \/ HereAs("ADMIN") # {}]

\* POST /dev/audit/preview: the confirmation signs the preview and its time.
ShowPreview(r) ==
  /\ resets[r].state = "new"
  /\ resets' = [resets EXCEPT ![r].state = "shown", ![r].at = now,
                              ![r].shown = Preview(OperationOf[r])]
  /\ UNCHANGED <<auditTables, authAdmin, auditLock, edits, now>>

(* ---------------------------------------------------------------- execute *)
\* verifyAuditConfirmation against a preview made again; a full reset goes to
\* Auth before it opens its transaction.
Execute(r) ==
  /\ resets[r].state = "shown"
  /\ now - resets[r].at <= ConfirmationLife
  /\ resets[r].shown = Preview(OperationOf[r])
  /\ resets' = [resets EXCEPT ![r].state = IF OperationOf[r] \in Levels THEN "ready" ELSE "auth"]
  /\ UNCHANGED <<auditTables, authAdmin, auditLock, edits, now>>

\* ensureAuthUsers, which the transaction does not roll back.
EnsureAuth(r) ==
  /\ resets[r].state = "auth"
  /\ authAdmin' = TRUE
  /\ resets' = [resets EXCEPT ![r].state = "ready"]
  /\ UNCHANGED <<auditTables, auditLock, edits, now>>

\* The lock is tried once; under it the preview is made again.
TrustsVerified(r) ==   \* mutant
  /\ auditLock = None
  /\ Preview(OperationOf[r]).canExecute
Agreed(r) ==
  /\ auditLock = None
  /\ resets[r].shown = Preview(OperationOf[r])
  /\ Preview(OperationOf[r]).canExecute

BeginReset(r) ==
  /\ resets[r].state = "ready" /\ Agreed(r)
  /\ auditLock' = r
  /\ resets' = [resets EXCEPT ![r].state = "locked", ![r].edits = edits]
  /\ UNCHANGED <<auditTables, authAdmin, edits, now>>

\* What to keep is read again; the rows of others go, then those of schools.
KeepAndDelete(r) ==
  LET kept == Kept(OperationOf[r])
  IN /\ resets[r].state = "locked" /\ OperationOf[r] \in Levels
     /\ resets' = [resets EXCEPT ![r].state = "deleting", ![r].kept = kept,
           ![r].doomed = [schools |-> Standing \ kept.schools, work |-> work]]
     /\ UNCHANGED <<auditTables, authAdmin, auditLock, edits, now>>

Closed(r) ==
  /\ auditLock' = IF auditLock = r THEN None ELSE auditLock
  /\ resets' = [resets EXCEPT ![r] = [@ EXCEPT !.state = "done", !.kept = NothingKept,
                                           !.doomed = NothingDoomed]]
  /\ UNCHANGED <<authAdmin, edits, now>>

\* The users go last, whoever is not to be kept by then. A school added in between
\* must not be theirs, and courses added in between need a school that stays.
CommitPartial(r) ==
  LET kept == resets[r].kept
      doomed == resets[r].doomed
      link(a) == LET s == accounts[a].school
                 IN IF s \in kept.schools THEN s ELSE None
  IN /\ resets[r].state = "deleting"
     /\ \A s \in Standing \ doomed.schools : owners[s] \in kept.users
     /\ work > doomed.work => Standing \ doomed.schools # {}
     /\ owners' = [s \in AuditSchools |-> IF s \in doomed.schools THEN None ELSE owners[s]]
     /\ accounts' = [a \in AuditAccounts |->
          IF a \in Here \cap kept.users THEN [school |-> link(a)] ELSE None]
     /\ work' = work - doomed.work
     /\ Closed(r)

\* TRUNCATE, then restoreAuditAdmin or seedAuditFixture.
Cleared(users, school) ==
  /\ accounts' = [a \in AuditAccounts |->
       IF a \notin users THEN None
       ELSE [school |-> IF RoleOf[a] \in {"INSTRUCTOR", "STUDENT"} THEN school ELSE None]]
  /\ owners' = [s \in AuditSchools |->
       IF s = school /\ s # None THEN CHOOSE a \in users : RoleOf[a] = "MANAGER" ELSE None]
  /\ work' = 0

CommitFull(r) ==
  /\ resets[r].state = "locked" /\ OperationOf[r] \notin Levels
  /\ \A o \in Resets \ {r} : resets[o].state \notin {"locked", "deleting"}
  /\ authAdmin
  /\ IF OperationOf[r] = "full" THEN Cleared({Technician}, None)
                                ELSE Cleared(FixtureAccounts, FixtureSchool)
  /\ Closed(r)

\* A conflict, an error or a lost connection undoes the transaction.
RefuseReset(r) ==
  /\ resets[r].state \in {"shown", "auth", "ready", "locked", "deleting"}
  /\ auditLock' = IF auditLock = r THEN None ELSE auditLock
  /\ resets' = [resets EXCEPT ![r] = [@ EXCEPT !.state = "refused", !.kept = NothingKept,
                                           !.doomed = NothingDoomed]]
  /\ UNCHANGED <<auditTables, authAdmin, edits, now>>

(* ----------------------------------------------------------- other users *)
Locked(s) == \E r \in Resets : s \in resets[r].doomed.schools
Edited == edits < EditLimit /\ edits' = edits + 1 /\ UNCHANGED <<authAdmin, auditLock, resets, now>>

AddAccount(a, s) ==
  /\ accounts[a] = None
  /\ IF RoleOf[a] \in {"INSTRUCTOR", "STUDENT"} THEN s \in Standing /\ ~Locked(s) ELSE s = None
  /\ accounts' = [accounts EXCEPT ![a] = [school |-> s]]
  /\ Edited /\ UNCHANGED <<owners, work>>
AddSchool(s, a) ==
  /\ owners[s] = None /\ a \in HereAs("ADMIN") \cup HereAs("MANAGER")
  /\ owners' = [owners EXCEPT ![s] = a]
  /\ Edited /\ UNCHANGED <<accounts, work>>
MoveAccount(a, s) ==
  /\ a \in HereAs("INSTRUCTOR") /\ s \in Standing /\ ~Locked(s)
  /\ accounts' = [accounts EXCEPT ![a].school = s]
  /\ Edited /\ UNCHANGED <<owners, work>>
AddWork == work' = work + 1 /\ Edited /\ UNCHANGED <<accounts, owners>>

\* POST /dev/reset-and-seed takes no lock but needs the tables for itself.
DemoSeed ==
  /\ \A r \in Resets : resets[r].state \notin {"locked", "deleting"}
  /\ edits < EditLimit /\ edits' = edits + 1
  /\ authAdmin' = TRUE
  /\ accounts' = AuditRows.accounts /\ owners' = AuditRows.owners /\ work' = AuditWork
  /\ UNCHANGED <<auditLock, resets, now>>

AuditTick == Later /\ UNCHANGED auditVars

AuditNext ==
  \/ AuditTick
  \/ \E r \in Resets : \/ ShowPreview(r) \/ Execute(r) \/ EnsureAuth(r) \/ BeginReset(r)
                       \/ KeepAndDelete(r) \/ CommitPartial(r) \/ CommitFull(r) \/ RefuseReset(r)
  \/ \E a \in AuditAccounts : \/ \E s \in Null(AuditSchools) : AddAccount(a, s)
                              \/ \E s \in AuditSchools : AddSchool(s, a) \/ MoveAccount(a, s)
  \/ AddWork \/ DemoSeed
AuditSpec == AuditInit /\ now = 0 /\ [][AuditNext]_<<auditVars, now>>

(* ------------------------------------------------------------- properties *)
\* A reset removes as many rows of each kind as the admin was shown and confirmed (which
\* ones is not compared), whatever other resets, seeds and edits happened in between; only
\* edits during its own transaction, which docs/AUDIT_DATA_TOOLING.md warns of, escape it.
PreviewHonoured ==
  [][\A r \in Resets :
       (CommitPartial(r) \/ CommitFull(r)) /\ resets[r].edits = edits =>
         /\ resets[r].shown.before = Summary
         /\ CommitPartial(r) => resets[r].shown.retained = Summary']_<<auditVars, now>>

\* An administrator is left, whichever resets follow or overlap.  (A reset also asks for an
\* active one before it starts, auditReset.service.ts; accounts are not blocked here.)
AdminRemains == HereAs("ADMIN") # {}
=============================================================================
