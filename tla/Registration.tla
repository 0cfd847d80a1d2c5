----------------------------- MODULE Registration -----------------------------
(***************************************************************************)
(* POST /auth/register (controllers/auth/register.handler): staff register *)
(* instructors and students. The account is made in Auth first and in the  *)
(* database after it, with its profile, its school and, for an instructor, *)
(* the default working hours, in one READ COMMITTED transaction. Beside    *)
(* it schools are deleted and a manager changes an e-mail address, in Auth *)
(* first as well.                                                          *)
(*                                                                         *)
(* An account has the same id in both stores; the id a registration gets   *)
(* is the registration's own name. Auth makes a new id for every account,  *)
(* so the branch for an id that is already in the database (existingById)  *)
(* cannot be taken and is left out. A process that dies leaves its         *)
(* registration where it is.                                               *)
(***************************************************************************)
EXTENDS Desk

CONSTANTS
  Registrations, RegRequest,   \* what is asked, by whom
  Members,                     \* the accounts that are there
  MemberRow, Renamed, NewEmail,  \* their rows; the one whose address changes, to what
  Emails, RegSchools,
  OwnedSchools, DefaultSchool, \* of the manager
  LinkedSchools,               \* of the instructor who registers students
  SchoolHours                  \* school_settings, None where there is no row

VARIABLES
  authEmails,    \* Auth: the address of each account, None where there is none
  users,         \* users with their profile, school and default hours
  liveSchools,
  registrations,
  renaming       \* the e-mail change

registrationVars == <<authEmails, users, liveSchools, registrations, renaming>>

Ids == Registrations \cup Members
Days == 0..6
Span == [from : Nat, to : Nat]
Settings == [days : SUBSET Days, span : Span]
UserRow == [email : Emails, role : {"INSTRUCTOR", "STUDENT"}, school : Null(RegSchools),
            hours : SUBSET (Days \X Span)]
Requested == [actor : {"ADMIN", "MANAGER", "INSTRUCTOR"}, role : {"INSTRUCTOR", "STUDENT"},
              email : Emails, school : Null(RegSchools)]

ASSUME RegistrationAssumption ==
  /\ None \notin Ids \cup Emails \cup RegSchools \cup UserRow
  /\ Registrations \cap Members = {}
  /\ RegRequest \in [Registrations -> Requested]
  /\ MemberRow \in [Members -> UserRow]
  /\ \A m, n \in Members : m # n => MemberRow[m].email # MemberRow[n].email
  /\ Renamed \in Members /\ NewEmail \in Emails
  /\ OwnedSchools \subseteq RegSchools /\ LinkedSchools \subseteq RegSchools
  /\ DefaultSchool \in Null(RegSchools)
  /\ SchoolHours \in [RegSchools -> Null(Settings)]

RegistrationInit ==
  /\ authEmails = [i \in Ids |-> IF i \in Members THEN MemberRow[i].email ELSE None]
  /\ users = [i \in Ids |-> IF i \in Members THEN MemberRow[i] ELSE None]
  /\ liveSchools = RegSchools
  /\ registrations = [r \in Registrations |-> [at |-> "new", school |-> None]]
  /\ renaming = "asked"

RegistrationTypeOK ==
  /\ authEmails \in [Ids -> Null(Emails)]
  /\ users \in [Ids -> Null(UserRow)]
  /\ liveSchools \subseteq RegSchools
  /\ registrations \in [Registrations ->
       [at : {"new", "auth", "existing", "check", "commit", "done", "failed"},
        school : Null(RegSchools)]]
  /\ renaming \in {"asked", "auth", "done", "refused"}

AuthOf(e) == {i \in Ids : authEmails[i] = e}
UserOf(e) == {i \in Ids : users[i] # None /\ users[i].email = e}

MayRegister(actor, role) == role = "INSTRUCTOR" => actor # "INSTRUCTOR"

\* The school asked for, or that of the actor; an administrator needs none for a
\* student, and an instructor's own link may lead to one school only.
SchoolFor(r) ==
  LET q == RegRequest[r]
      linked == LinkedSchools \cap liveSchools
  IN IF q.school # None THEN {q.school}
     ELSE IF q.actor = "MANAGER" THEN {DefaultSchool} \ {None}
     ELSE IF q.actor = "INSTRUCTOR" /\ Cardinality(linked) = 1 THEN linked
     ELSE {}

MayAssign(actor, s) ==
  /\ s \in liveSchools
  /\ actor = "MANAGER" => s \in OwnedSchools
  /\ actor = "INSTRUCTOR" => s \in LinkedSchools

Ends(r) == registrations' = [registrations EXCEPT ![r].at = "failed"]

RegisterBegin(r) ==
  LET q == RegRequest[r]
      needless == q.actor = "ADMIN" /\ q.role = "STUDENT" /\ q.school = None
      taken == q.role = "INSTRUCTOR" /\ \E i \in UserOf(q.email) :
                 users[i].role = "INSTRUCTOR" /\ users[i].school # None
      valid == {s \in SchoolFor(r) : MayAssign(q.actor, s)}
      admitted == MayRegister(q.actor, q.role) /\ (needless \/ valid # {}) /\ ~taken
  IN /\ registrations[r].at = "new"
     /\ \/ /\ admitted
           /\ registrations' = [registrations EXCEPT ![r] =
                [at |-> "auth",
                 school |-> IF needless THEN None ELSE CHOOSE s \in valid : TRUE]]
        \/ ~admitted /\ Ends(r)
     /\ UNCHANGED <<authEmails, users, liveSchools, renaming>>

\* createUser: refused when Auth knows the address; its answer can be lost.
IgnoresRefusal(r) ==   \* mutant
  /\ registrations[r].at = "auth"
  /\ \/ AuthOf(RegRequest[r].email) = {} /\ authEmails' = [authEmails EXCEPT ![r] = RegRequest[r].email]
     \/ UNCHANGED authEmails
  /\ registrations' = [registrations EXCEPT ![r].at = "existing"]
  /\ UNCHANGED <<users, liveSchools, renaming>>
RegisterAuth(r) ==
  LET e == RegRequest[r].email
  IN /\ registrations[r].at = "auth"
     /\ \/ /\ AuthOf(e) = {}
           /\ authEmails' = [authEmails EXCEPT ![r] = e]
           /\ \/ registrations' = [registrations EXCEPT ![r].at = "existing"]
              \/ Ends(r)
        \/ Ends(r) /\ UNCHANGED authEmails
     /\ UNCHANGED <<users, liveSchools, renaming>>

\* The address may still be in the database, with another account's row.
RegisterExisting(r) ==
  /\ registrations[r].at = "existing"
  /\ \/ /\ UserOf(RegRequest[r].email) = {}
        /\ registrations' = [registrations EXCEPT ![r].at = "check"]
     \/ UserOf(RegRequest[r].email) # {} /\ Ends(r)
  /\ UNCHANGED <<authEmails, users, liveSchools, renaming>>

\* In the transaction: the school is read again, and not locked.
RegisterCheck(r) ==
  LET s == registrations[r].school
      present == s = None \/ s \in liveSchools
  IN /\ registrations[r].at = "check"
     /\ \/ present /\ registrations' = [registrations EXCEPT ![r].at = "commit"]
        \/ ~present /\ Ends(r)
     /\ UNCHANGED <<authEmails, users, liveSchools, renaming>>

Usual == [from |-> 8, to |-> 18]
HoursOf(s) ==
  LET settings == SchoolHours[s]
  IN IF settings = None THEN (1..5) \X {Usual}
     ELSE IF settings.days = {} THEN (1..5) \X {Usual}
     ELSE settings.days \X
            {IF settings.span.from >= settings.span.to THEN Usual ELSE settings.span}

NewUser(r) ==
  LET q == RegRequest[r]  s == registrations[r].school
  IN [email |-> q.email, role |-> q.role, school |-> s,
      hours |-> IF q.role = "INSTRUCTOR" THEN HoursOf(s) ELSE {}]

\* The commit; the row of another account with this address makes it fail (P2002).
AttachesLater(r) ==   \* mutant
  /\ registrations[r].at = "commit" /\ UserOf(RegRequest[r].email) = {}
  /\ users' = [users EXCEPT ![r] = [NewUser(r) EXCEPT !.school = None, !.hours = {}]]
  /\ registrations' = [registrations EXCEPT ![r].at = "done"]
  /\ UNCHANGED <<authEmails, liveSchools, renaming>>
RegisterCommit(r) ==
  /\ registrations[r].at = "commit"
  /\ \/ /\ UserOf(RegRequest[r].email) = {}
        /\ users' = [users EXCEPT ![r] = NewUser(r)]
        /\ registrations' = [registrations EXCEPT ![r].at = "done"]
     \/ Ends(r) /\ UNCHANGED users
  /\ UNCHANGED <<authEmails, liveSchools, renaming>>

SchoolDeleted(s) ==
  /\ s \in liveSchools
  /\ liveSchools' = liveSchools \ {s}
  /\ UNCHANGED <<authEmails, users, registrations, renaming>>

\* changeManagerAccountEmail, as far as registrations can meet it: Auth, then the row.
RenameInAuth ==
  /\ renaming = "asked"
  /\ \/ /\ AuthOf(NewEmail) = {}
        /\ authEmails' = [authEmails EXCEPT ![Renamed] = NewEmail]
        /\ renaming' = "auth"
     \/ AuthOf(NewEmail) # {} /\ renaming' = "refused" /\ UNCHANGED authEmails
  /\ UNCHANGED <<users, liveSchools, registrations>>

RenameInApp ==
  /\ renaming = "auth"
  /\ UserOf(NewEmail) = {}
  /\ users' = [users EXCEPT ![Renamed].email = NewEmail]
  /\ renaming' = "done"
  /\ UNCHANGED <<authEmails, liveSchools, registrations>>

RegistrationNext ==
  /\ \/ \E r \in Registrations :
          \/ RegisterBegin(r) \/ RegisterAuth(r) \/ RegisterExisting(r)
          \/ RegisterCheck(r) \/ RegisterCommit(r)
     \/ \E s \in RegSchools : SchoolDeleted(s)
     \/ RenameInAuth \/ RenameInApp
  /\ UNCHANGED now
RegistrationSpec == RegistrationInit /\ now = 0 /\ [][RegistrationNext]_<<registrationVars, now>>

\* Wherever a registration stops, a user in the database has all that belongs to
\* the role: an instructor a school and hours to work, each of which starts
\* before it ends; a student the school the staff of a school must give.
RegisteredWhole ==
  \A r \in Registrations :
    users[r] # None =>
      IF users[r].role = "INSTRUCTOR"
      THEN /\ users[r].school # None
           /\ users[r].hours # {}
           /\ \A h \in users[r].hours : h[2].from < h[2].to
      ELSE RegRequest[r].actor # "ADMIN" => users[r].school # None

\* The address of every user in the database is that account's in Auth as well, so
\* the password belongs to the row it opens; an e-mail change under way is the one
\* exception, and nobody else can take the address it is leaving into the database.
AddressesAgree ==
  \A i \in Ids :
    users[i] # None =>
      \/ authEmails[i] = users[i].email
      \/ i = Renamed /\ renaming = "auth" /\ authEmails[i] = NewEmail

\* What registrations leave in the database is whole and belongs to its Auth account,
\* wherever each of them stopped.
RegistrationsHold == RegisteredWhole /\ AddressesAgree
=============================================================================
