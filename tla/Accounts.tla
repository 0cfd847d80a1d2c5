------------------------------ MODULE Accounts ------------------------------
(***************************************************************************)
(* Accounts, their sessions and the changes a manager makes to them:       *)
(* lib/accountSessions, middleware/auth, controllers/auth, managerAccounts *)
(* and manager-accounts/emailChange.  A client is one HTTP request handler *)
(* at a time.  An action is one database transaction (those that take the  *)
(* row lock of the user are atomic to each other), one statement, or one   *)
(* call of Supabase Auth, which is external and keeps its own e-mail.      *)
(* Any handler may end between two of its steps: Fail.                     *)
(*                                                                         *)
(* Names, passwords and the audit rows nobody reads (BLOCK, UNBLOCK,       *)
(* ARCHIVE, PROFILE_UPDATE) are left out; whether a manager may see the    *)
(* account, and its obligations, are refusals that Fail stands for.        *)
(***************************************************************************)
EXTENDS Naturals, FiniteSets

CONSTANTS
  Users, Clients,
  Sessions,        \* session ids drawn by Auth at sign-in
  Actions,         \* row ids of account_actions
  Emails, FirstEmail,
  None,
  Requests, MaxRequests,  \* what clients may send, and how often (bound)
  LossyAuth,       \* may an answer of Auth be lost after it did what was asked?
  CarefulRepair    \* is a change only reconciled once its own request is over?

Pending == {"PENDING", "AUTH_UPDATED", "REPAIR_REQUIRED"}
User == [active : BOOLEAN, archived : BOOLEAN, email : Emails]
Session == [user : Users, revoked : BOOLEAN]
EmailChange == [kind : {"EMAIL_CHANGE"}, target : Users, old : Emails, new : Emails,
                status : Pending \cup {"COMPLETED", "FAILED"}]
Reset == [kind : {"PASSWORD_RESET_REQUEST"}, target : Users, recent : BOOLEAN,
          status : {"REQUESTING", "COMPLETED", "FAILED"}]

LoginRequests == [op : {"login"}, user : Users, session : Sessions]
TokenRequests == [op : {"use", "logout"}, session : Sessions]
AccountRequests ==
  [op : {"block", "unblock", "archive", "deactivate", "recover", "reset", "reconcile"},
   user : Users]
ChangeRequests == [op : {"changeEmail"}, user : Users, email : Emails]
AllRequests == LoginRequests \cup TokenRequests \cup AccountRequests \cup ChangeRequests

ASSUME EmailAssumption ==
  /\ FirstEmail \in [Users -> Emails]
  /\ \A u, v \in Users : FirstEmail[u] = FirstEmail[v] => u = v
ASSUME NoneAssumption ==
  None \notin Session \cup EmailChange \cup Reset \cup AllRequests
             \cup [action : Actions, email : Emails, ok : BOOLEAN]
ASSUME RequestAssumption == Requests \subseteq AllRequests
ASSUME SwitchAssumption ==
  MaxRequests \in Nat /\ LossyAuth \in BOOLEAN /\ CarefulRepair \in BOOLEAN

VARIABLES
  users,      \* the users table
  sessions,   \* the account_sessions table
  actions,    \* the account_actions table: e-mail changes and password resets
  authEmail,  \* external: the e-mail Auth signs each user in with
  req, phase, \* the request each client handles, and how far it has come
  prep,       \* what its handler keeps between two steps
  issued,     \* requests sent so far
  seen,       \* history: was the token usable at a moment of the request?
  stale       \* history: sessions older than a deactivation of their account

tables == <<users, sessions, actions, authEmail>>
vars == <<tables, req, phase, prep, issued, seen, stale>>

-----------------------------------------------------------------------------
(* What the handlers ask of the tables. *)

Exists(row) == row # None
Active(user) == user.active /\ ~ user.archived
Registered(s) == Exists(sessions[s])
Live(s) == Exists(sessions[s]) /\ ~ sessions[s].revoked
Usable(us, ss, s) ==
  Exists(ss[s]) /\ ~ ss[s].revoked /\ Active(us[ss[s].user])

PendingChanges(u) ==
  {a \in Actions : Exists(actions[a]) /\ actions[a].target = u /\ actions[a].status \in Pending}
RunningResets(u) ==
  {a \in Actions : Exists(actions[a]) /\ actions[a].target = u
                     /\ actions[a].status = "REQUESTING" /\ actions[a].recent}

\* requireAvailable
DuringReset(u) == ~ users[u].archived /\ PendingChanges(u) = {}  \* mutant
Available(u) ==
  ~ users[u].archived /\ PendingChanges(u) = {} /\ RunningResets(u) = {}

Revoke(row) == [user |-> row.user, revoked |-> TRUE]
NoneRevoked(u) == sessions  \* mutant: sessions survive the change
AllRevoked(u) ==
  [s \in Sessions |-> IF Live(s) /\ sessions[s].user = u
                      THEN Revoke(sessions[s]) ELSE sessions[s]]

SetStatus(a, status) == actions' = [actions EXCEPT ![a].status = status]
\* uq_account_actions_pending_target
OnlyPending(a) == PendingChanges(actions[a].target) \subseteq {a}
\* users_email_active_idx
EmailFree(u, m) ==
  users[u].archived \/ \A v \in Users \ {u} : users[v].archived \/ users[v].email # m

-----------------------------------------------------------------------------
(* Handler steps shared by all operations. *)

To(c, p) == phase' = [phase EXCEPT ![c] = p]
Keep(c, x) == prep' = [prep EXCEPT ![c] = x]
At(c, p, ops) == phase[c] = p /\ req[c].op \in ops

Answer(c) ==
  /\ req' = [req EXCEPT ![c] = None]
  /\ To(c, "idle")
  /\ prep' = [prep EXCEPT ![c] = None]
  /\ UNCHANGED issued
Rejected(c) == Answer(c) /\ UNCHANGED tables
Go(c, p) == To(c, p) /\ UNCHANGED <<req, issued>>

Handling(u, ops) ==
  \E d \in Clients : req[d] # None /\ req[d].op \in ops /\ req[d].user = u

\* A session id is drawn once; a token is sent by someone who was given it.
Possible(q) ==
  /\ q.op = "login" =>
       /\ ~ Registered(q.session)
       /\ \A d \in Clients : req[d] # None /\ req[d].op = "login" => req[d].session # q.session
  /\ q.op \in {"use", "logout"} => Registered(q.session)
  /\ CarefulRepair /\ q.op = "reconcile" => ~ Handling(q.user, {"changeEmail", "reconcile"})
  /\ CarefulRepair /\ q.op = "changeEmail" => ~ Handling(q.user, {"reconcile"})

Submit(c, q) ==
  /\ phase[c] = "idle" /\ issued < MaxRequests
  /\ Possible(q)
  /\ req' = [req EXCEPT ![c] = q]
  /\ To(c, "received")
  /\ issued' = issued + 1
  /\ UNCHANGED <<prep, tables>>

-----------------------------------------------------------------------------
(* Signing in, and every later request with the token. *)

\* login up to registerAccountSession; Auth has accepted the password.
SignIn(c) ==
  /\ At(c, "received", {"login"})
  /\ IF Active(users[req[c].user]) THEN Go(c, "ready") /\ UNCHANGED <<prep, tables>>
     ELSE Rejected(c)

\* registerAccountSession, under the lock of the user row.
Register(c) ==
  /\ At(c, "ready", {"login"})
  /\ LET u == req[c].user IN
     IF Active(users[u]) /\ PendingChanges(u) = {}
     THEN /\ sessions' = [sessions EXCEPT ![req[c].session] = [user |-> u, revoked |-> FALSE]]
          /\ Answer(c)
          /\ UNCHANGED <<users, actions, authEmail>>
     ELSE Rejected(c)

\* authMiddleware and refresh: three reads, each of its own moment.
Check(c, from, ok, to) ==
  /\ At(c, from, {"use", "logout"})
  /\ IF ok THEN Go(c, to) /\ UNCHANGED <<prep, tables>> ELSE Rejected(c)
Owner(c) == sessions[req[c].session].user

ReadUser(c) == Check(c, "received", Active(users[Owner(c)]), "userRead")
ReadSession(c) == Check(c, "userRead", Live(req[c].session), "sessionRead")
ReadPending(c) == Check(c, "sessionRead", PendingChanges(Owner(c)) = {}, "admitted")
Respond(c) == At(c, "admitted", {"use"}) /\ Rejected(c)

Logout(c) ==
  /\ At(c, "admitted", {"logout"})
  /\ LET s == req[c].session IN
     sessions' = IF Live(s) THEN [sessions EXCEPT ![s] = Revoke(@)] ELSE sessions
  /\ Answer(c)
  /\ UNCHANGED <<users, actions, authEmail>>

\* completePasswordRecovery: the account is read, Auth sets the password, the
\* sessions are revoked without the lock.
CheckRecovery(c) ==
  /\ At(c, "received", {"recover"})
  /\ IF Active(users[req[c].user]) THEN Go(c, "revoking") /\ UNCHANGED <<prep, tables>>
     ELSE Rejected(c)
RevokeSessions(c) ==
  /\ At(c, "revoking", {"recover"})
  /\ sessions' = AllRevoked(req[c].user)
  /\ Answer(c)
  /\ UNCHANGED <<users, actions, authEmail>>

-----------------------------------------------------------------------------
(* Blocking, unblocking and archiving. *)

SetActive(c) ==
  /\ At(c, "received", {"block", "unblock"})
  /\ LET u == req[c].user
         active == req[c].op = "unblock"
     IN IF Available(u) /\ users[u].active # active
        THEN /\ users' = [users EXCEPT ![u].active = active]
             /\ sessions' = AllRevoked(u)
             /\ Answer(c)
             /\ UNCHANGED <<actions, authEmail>>
        ELSE Rejected(c)

Archive(c) ==
  /\ At(c, "received", {"archive"})
  /\ LET u == req[c].user IN
     IF Available(u)
     THEN /\ users' = [users EXCEPT ![u].active = FALSE, ![u].archived = TRUE]
          /\ sessions' = AllRevoked(u)
          /\ Answer(c)
          /\ UNCHANGED <<actions, authEmail>>
     ELSE Rejected(c)

\* An administrator's soft delete of an instructor leaves the sessions alone.
Deactivate(c) ==
  /\ At(c, "received", {"deactivate"})
  /\ LET u == req[c].user IN
     IF Active(users[u])
     THEN /\ users' = [users EXCEPT ![u].active = FALSE]
          /\ Answer(c)
          /\ UNCHANGED <<sessions, actions, authEmail>>
     ELSE Rejected(c)

-----------------------------------------------------------------------------
(* Calls to Auth on behalf of a manager: password reset and e-mail change. *)

\* The transaction that opens an action; Auth is called after its commit.
Open(c, row) ==
  \E a \in Actions :
    /\ ~ Exists(actions[a])
    /\ actions' = [actions EXCEPT ![a] = row]
    /\ Keep(c, [action |-> a, email |-> users[req[c].user].email, ok |-> FALSE])
    /\ Go(c, "calling")
    /\ UNCHANGED <<users, sessions, authEmail>>

BeginReset(c) ==
  /\ At(c, "received", {"reset"})
  /\ LET u == req[c].user IN
     IF Available(u) /\ users[u].active
     THEN Open(c, [kind |-> "PASSWORD_RESET_REQUEST", target |-> u, recent |-> TRUE,
                   status |-> "REQUESTING"])
     ELSE Rejected(c)

SendReset(c) ==
  /\ At(c, "calling", {"reset"})
  /\ \E ok \in BOOLEAN : Keep(c, [prep[c] EXCEPT !.ok = ok])
  /\ Go(c, "answered")
  /\ UNCHANGED tables

CloseReset(c) ==
  /\ At(c, "answered", {"reset"})
  /\ SetStatus(prep[c].action, IF prep[c].ok THEN "COMPLETED" ELSE "FAILED")
  /\ Answer(c)
  /\ UNCHANGED <<users, sessions, authEmail>>

NoNewValue(q) ==  \* mutant: the new e-mail is not stored with the action
  [kind |-> "EMAIL_CHANGE", target |-> q.user, old |-> users[q.user].email, new |-> None,
   status |-> "PENDING"]
ChangeRow(q) ==
  [kind |-> "EMAIL_CHANGE", target |-> q.user, old |-> users[q.user].email, new |-> q.email,
   status |-> "PENDING"]

BeginChange(c) ==
  /\ At(c, "received", {"changeEmail"})
  /\ LET q == req[c] IN
     IF Available(q.user) /\ users[q.user].email # q.email
     THEN Open(c, ChangeRow(q))
     ELSE Rejected(c)

\* auth.admin.updateUserById; ok is the answer as the handler sees it.
CallAuth(c) ==
  /\ At(c, "calling", {"changeEmail"})
  /\ LET q == req[c] IN
     \/ /\ \A v \in Users \ {q.user} : authEmail[v] # q.email
        /\ authEmail' = [authEmail EXCEPT ![q.user] = q.email]
        /\ \E ok \in {TRUE} \cup {~ LossyAuth} :
             Keep(c, [prep[c] EXCEPT !.email = q.email, !.ok = ok])
     \/ UNCHANGED <<authEmail, prep>>
  /\ Go(c, "answered")
  /\ UNCHANGED <<users, sessions, actions>>

NoteAnswer(c) ==
  /\ At(c, "answered", {"changeEmail"})
  /\ LET a == prep[c].action IN
     \/ ~ prep[c].ok /\ SetStatus(a, "FAILED") /\ Answer(c)
     \/ prep[c].ok /\ OnlyPending(a) /\ SetStatus(a, "AUTH_UPDATED")
          /\ Go(c, "finishing") /\ UNCHANGED prep
  /\ UNCHANGED <<users, sessions, authEmail>>

\* finishEmailAction, under the lock of the user row.
FinishChange(c) ==
  /\ phase[c] = "finishing"
  /\ LET u == req[c].user IN
     /\ EmailFree(u, prep[c].email)
     /\ users' = [users EXCEPT ![u].email = prep[c].email]
     /\ sessions' = AllRevoked(u)
     /\ SetStatus(prep[c].action, "COMPLETED")
     /\ Answer(c)
     /\ UNCHANGED authEmail

GivenUp == "FAILED"  \* mutant: a change that Auth made is reported as failed
Unfinished == "REPAIR_REQUIRED"
FinishFails(c) ==
  /\ At(c, "finishing", {"changeEmail"})
  /\ OnlyPending(prep[c].action)
  /\ SetStatus(prep[c].action, Unfinished)
  /\ Answer(c)
  /\ UNCHANGED <<users, sessions, authEmail>>

\* reconcileManagerAccountEmail: the action and Auth are read without any lock.
ReadAction(c) ==
  /\ At(c, "received", {"reconcile"})
  /\ LET open == PendingChanges(req[c].user) IN
     \/ \E a \in open : /\ Keep(c, [action |-> a, email |-> actions[a].new, ok |-> TRUE])
                        /\ Go(c, "asking")
                        /\ UNCHANGED tables
     \/ open = {} /\ Rejected(c)

AskAuth(c) ==
  /\ At(c, "asking", {"reconcile"})
  /\ LET inAuth == authEmail[req[c].user]
         old == actions[prep[c].action].old
     IN \/ inAuth = prep[c].email /\ Go(c, "finishing") /\ UNCHANGED <<prep, tables>>
        \/ inAuth # prep[c].email /\ inAuth = old /\ Go(c, "failing") /\ UNCHANGED <<prep, tables>>
        \/ inAuth \notin {prep[c].email, old} /\ Rejected(c)

MarkFailed(c) ==
  /\ At(c, "failing", {"reconcile"})
  /\ SetStatus(prep[c].action, "FAILED")
  /\ Answer(c)
  /\ UNCHANGED <<users, sessions, authEmail>>

-----------------------------------------------------------------------------
(* A refusal, an error of the database, a crash of the server. *)
Fail(c) == phase[c] # "idle" /\ Rejected(c)

\* Five minutes pass: a reset left behind by a crash no longer counts.
Expire(a) ==
  /\ a \in UNION {RunningResets(u) : u \in Users}
  /\ \A c \in Clients : prep[c] # None => prep[c].action # a
  /\ actions' = [actions EXCEPT ![a].recent = FALSE]
  /\ UNCHANGED <<users, sessions, authEmail, req, phase, prep, issued>>

\* A request that carries a token is between its arrival and its admission.
Deciding == {"received", "userRead", "sessionRead", "admitted"}
Carries(r, p) == r # None /\ r.op \in {"use", "logout"} /\ p \in Deciding
History ==
  /\ seen' = [c \in Clients |->
                Carries(req'[c], phase'[c]) /\ (seen[c] \/ Usable(users', sessions', req'[c].session))]
  /\ stale' = stale \cup {s \in Sessions : Registered(s) /\ ~ Active(users'[sessions[s].user])}

Init ==
  /\ users = [u \in Users |-> [active |-> TRUE, archived |-> FALSE, email |-> FirstEmail[u]]]
  /\ sessions = [s \in Sessions |-> None]
  /\ actions = [a \in Actions |-> None]
  /\ authEmail = FirstEmail
  /\ req = [c \in Clients |-> None]
  /\ phase = [c \in Clients |-> "idle"]
  /\ prep = [c \in Clients |-> None]
  /\ issued = 0
  /\ seen = [c \in Clients |-> FALSE]
  /\ stale = {}

SessionStep(c) ==
  \/ SignIn(c) \/ Register(c) \/ ReadUser(c) \/ ReadSession(c) \/ ReadPending(c)
  \/ Respond(c) \/ Logout(c) \/ CheckRecovery(c) \/ RevokeSessions(c)
StatusStep(c) == SetActive(c) \/ Archive(c) \/ Deactivate(c)
ResetStep(c) == BeginReset(c) \/ SendReset(c) \/ CloseReset(c)
EmailStep(c) ==
  \/ BeginChange(c) \/ CallAuth(c) \/ NoteAnswer(c) \/ FinishChange(c) \/ FinishFails(c)
  \/ ReadAction(c) \/ AskAuth(c) \/ MarkFailed(c)

Step ==
  \/ \E c \in Clients :
       \/ \E q \in Requests : Submit(c, q)
       \/ SessionStep(c) \/ StatusStep(c) \/ ResetStep(c) \/ EmailStep(c)
       \/ Fail(c)
  \/ \E a \in Actions : Expire(a)
Next == Step /\ History
Spec == Init /\ [][Next]_vars

-----------------------------------------------------------------------------
(* Properties. *)

\* The tables hold rows of the schema; an e-mail change knows both e-mails.
TypeOK ==
  /\ users \in [Users -> User]
  /\ sessions \in [Sessions -> Session \cup {None}]
  /\ actions \in [Actions -> EmailChange \cup Reset \cup {None}]
  /\ authEmail \in [Users -> Emails]
  /\ req \in [Clients -> Requests \cup {None}]
  /\ issued \in 0..MaxRequests
  /\ seen \in [Clients -> BOOLEAN]
  /\ stale \subseteq Sessions

\* What a handler keeps while it talks to Auth: its action, of the kind it opened or found.
Talking == {"calling", "answered", "finishing", "asking", "failing"}
Kind(c) == IF req[c].op = "reset" THEN Reset ELSE EmailChange
PrepOK ==
  \A c \in Clients : phase[c] \in Talking =>
    /\ prep[c] \in [action : Actions, email : Emails, ok : BOOLEAN]
    /\ actions[prep[c].action] \in Kind(c)
    /\ phase[c] = "finishing" => req[c].op # "reset"

\* TypeOK with what makes it inductive.
TypeInv ==
  /\ TypeOK
  /\ PrepOK
  /\ phase = [c \in Clients |-> phase[c]]
  /\ prep = [c \in Clients |-> prep[c]]
  /\ \A c \in Clients : phase[c] # "idle" => req[c] \in Requests

\* The session a sign-in was given is registered by nobody else.
LoginsOK ==
  \A c \in Clients : req[c] # None /\ req[c].op = "login" =>
    /\ ~ Registered(req[c].session)
    /\ \A d \in Clients \ {c} : req[d] # None /\ req[d].op = "login"
                                  => req[d].session # req[c].session

\* A session never outlives a deactivation of its account: once it was blocked,
\* archived or soft-deleted, a later unblock does not bring the session back
\* (setManagerAccountActive revokes on both, registerAccountSession takes the lock).
StaleNeverUsable == \A s \in stale : ~ Usable(users, sessions, s)

SessionInv == LoginsOK /\ StaleNeverUsable /\ \A s \in stale : Registered(s)

\* authMiddleware and refresh read the account and the session at two moments; a
\* request they let through was nevertheless usable at one moment of its own.
AdmittedWasUsable == \A c \in Clients : phase[c] = "admitted" => seen[c]

\* manager-accounts.test.ts: "records repair state if Auth changes the email but the
\* local database fails".  With no handler at work, a user whose e-mail in Auth is not
\* the local one has an open change, which reconcile can find.
DivergenceIsRecorded ==
  (\A c \in Clients : phase[c] = "idle")
    => \A u \in Users : users[u].email # authEmail[u] => PendingChanges(u) # {}

\* The reset mail of a manager goes out to the address Auth has at that moment: an
\* e-mail change cannot slip between the read of the address and the call.
ResetReachesAccount ==
  [][\A c \in Clients :
       At(c, "calling", {"reset"}) /\ phase'[c] = "answered"
         => prep[c].email = authEmail[req[c].user]]_vars
=============================================================================
