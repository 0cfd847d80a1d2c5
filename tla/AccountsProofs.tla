--------------------------- MODULE AccountsProofs ---------------------------
(***************************************************************************)
(* Proofs about Accounts, for every number of handlers, accounts, sessions *)
(* and actions.  Answers of Auth may be lost and repairs may be careless,  *)
(* but for the last two theorems, which exclude both.                      *)
(***************************************************************************)
EXTENDS Accounts, TLAPS

USE DEF tables, Exists, To, Keep, At, Go

\* The op of a request tells its shape.
LEMMA RequestShape ==
  ASSUME NEW q \in Requests
  PROVE  /\ q.op = "login" => q \in LoginRequests
         /\ q.op \in {"use", "logout"} => q \in TokenRequests
         /\ q.op \in {"block", "unblock", "archive", "deactivate", "recover", "reset",
                      "reconcile"} => q \in AccountRequests
         /\ q.op = "changeEmail" => q \in ChangeRequests
BY RequestAssumption
   DEF AllRequests, LoginRequests, TokenRequests, AccountRequests, ChangeRequests

(***************************************************************************)
(* Types: first the ways a handler may step, then what is written.         *)
(***************************************************************************)
RowsOK(us, ss, as, au) ==
  /\ us \in [Users -> User]
  /\ ss \in [Sessions -> Session \cup {None}]
  /\ as \in [Actions -> EmailChange \cup Reset \cup {None}]
  /\ au \in [Users -> Emails]

\* An action that exists keeps its kind.
KindsKept ==
  \A a \in Actions : /\ actions[a] \in EmailChange => actions'[a] \in EmailChange
                     /\ actions[a] \in Reset => actions'[a] \in Reset

LEMMA InitType == Init => TypeInv
BY EmailAssumption, SwitchAssumption
   DEF Init, TypeInv, TypeOK, PrepOK, User, Talking

LEMMA AnswerType ==
  ASSUME TypeInv, NEW c \in Clients, Answer(c),
         RowsOK(users', sessions', actions', authEmail'), KindsKept, History
  PROVE  TypeInv'
<1>1. /\ stale' \subseteq Sessions
      /\ seen' \in [Clients -> BOOLEAN]
  BY DEF TypeInv, TypeOK, History, Carries, Usable, Active
<1>2. TypeOK'
  BY <1>1 DEF TypeInv, TypeOK, Answer, RowsOK
<1>3. /\ phase' = [d \in Clients |-> phase'[d]]
      /\ prep' = [d \in Clients |-> prep'[d]]
      /\ \A d \in Clients : phase'[d] # "idle" => req'[d] \in Requests
  BY DEF TypeInv, TypeOK, Answer
<1>4. PrepOK'
  <2> SUFFICES ASSUME NEW d \in Clients, phase'[d] \in Talking
               PROVE  /\ prep'[d] \in [action : Actions, email : Emails, ok : BOOLEAN]
                      /\ actions'[prep'[d].action] \in Kind(d)'
                      /\ phase'[d] = "finishing" => req'[d].op # "reset"
    BY DEF PrepOK
  <2>1. d # c
    BY DEF Answer, Talking, TypeInv
  <2>2. prep'[d] = prep[d] /\ req'[d] = req[d] /\ phase'[d] = phase[d]
    BY <2>1 DEF Answer, TypeInv, TypeOK
  <2>3. QED
    BY <2>2 DEF TypeInv, PrepOK, KindsKept, Kind
<1>5. QED
  BY <1>2, <1>3, <1>4 DEF TypeInv

\* A step that does not answer: the handler goes to phase p and keeps x.
LEMMA GoType ==
  ASSUME TypeInv, NEW c \in Clients, NEW p, NEW x,
         phase[c] # "idle", Go(c, p), prep' = [prep EXCEPT ![c] = x],
         p \in Talking => /\ x \in [action : Actions, email : Emails, ok : BOOLEAN]
                          /\ actions'[x.action] \in Kind(c)
                          /\ p = "finishing" => req[c].op # "reset",
         RowsOK(users', sessions', actions', authEmail'), KindsKept, History
  PROVE  TypeInv'
<1>1. /\ stale' \subseteq Sessions
      /\ seen' \in [Clients -> BOOLEAN]
  BY DEF TypeInv, TypeOK, History, Carries, Usable, Active
<1>2. TypeOK'
  BY <1>1 DEF TypeInv, TypeOK, RowsOK
<1>3. /\ phase' = [d \in Clients |-> phase'[d]]
      /\ prep' = [d \in Clients |-> prep'[d]]
      /\ \A d \in Clients : phase'[d] # "idle" => req'[d] \in Requests
  BY DEF TypeInv, TypeOK
<1>4. PrepOK'
  <2> SUFFICES ASSUME NEW d \in Clients, phase'[d] \in Talking
               PROVE  /\ prep'[d] \in [action : Actions, email : Emails, ok : BOOLEAN]
                      /\ actions'[prep'[d].action] \in Kind(d)'
                      /\ phase'[d] = "finishing" => req'[d].op # "reset"
    BY DEF PrepOK
  <2>1. CASE d = c
    BY <2>1 DEF TypeInv, Kind
  <2>2. CASE d # c
    <3>1. prep'[d] = prep[d] /\ req'[d] = req[d] /\ phase'[d] = phase[d]
      BY <2>2 DEF TypeInv, TypeOK
    <3>2. QED
      BY <3>1 DEF TypeInv, PrepOK, KindsKept, Kind
  <2>3. QED
    BY <2>1, <2>2
<1>5. QED
  BY <1>2, <1>3, <1>4 DEF TypeInv

\* The tables a step leaves alone.
LEMMA UnchangedRows ==
  ASSUME TypeInv, UNCHANGED tables
  PROVE  RowsOK(users', sessions', actions', authEmail') /\ KindsKept
BY DEF TypeInv, TypeOK, RowsOK, KindsKept

LEMMA RejectedType ==
  ASSUME TypeInv, NEW c \in Clients, Rejected(c), History
  PROVE  TypeInv'
BY AnswerType, UnchangedRows DEF Rejected

\* A step that only moves on.
LEMMA MoveType ==
  ASSUME TypeInv, NEW c \in Clients, NEW p, phase[c] # "idle", Go(c, p),
         p \notin Talking, UNCHANGED <<prep, tables>>, History
  PROVE  TypeInv'
<1>1. prep' = [prep EXCEPT ![c] = prep[c]]
  BY DEF TypeInv
<1>2. QED
  BY <1>1, GoType, UnchangedRows

LEMMA AllRevokedType ==
  ASSUME TypeInv, NEW u
  PROVE  AllRevoked(u) \in [Sessions -> Session \cup {None}]
BY NoneAssumption DEF TypeInv, TypeOK, AllRevoked, Revoke, Session, Live

\* An answer after which only users and sessions differ.
LEMMA WroteRows ==
  ASSUME TypeInv, NEW c \in Clients, Answer(c), History,
         users' \in [Users -> User],
         sessions' \in [Sessions -> Session \cup {None}],
         UNCHANGED <<actions, authEmail>>
  PROVE  TypeInv'
<1>1. RowsOK(users', sessions', actions', authEmail') /\ KindsKept
  BY DEF TypeInv, TypeOK, RowsOK, KindsKept
<1>2. QED
  BY <1>1, AnswerType

LEMMA SessionStepType ==
  ASSUME TypeInv, NEW c \in Clients, SessionStep(c), History
  PROVE  TypeInv'
<1>1. CASE SignIn(c)
  BY <1>1, MoveType, RejectedType DEF SignIn, Talking
<1>2. CASE Register(c)
  <2>1. CASE Rejected(c)
    BY <2>1, RejectedType
  <2>2. CASE /\ sessions' = [sessions EXCEPT ![req[c].session] =
                               [user |-> req[c].user, revoked |-> FALSE]]
             /\ Answer(c)
             /\ UNCHANGED <<users, actions, authEmail>>
    <3>1. req[c] \in LoginRequests
      BY <1>2, RequestShape DEF Register, TypeInv
    <3>2. sessions' \in [Sessions -> Session \cup {None}]
      BY <2>2, <3>1 DEF TypeInv, TypeOK, LoginRequests, Session
    <3>3. QED
      BY <2>2, <3>2, WroteRows DEF TypeInv, TypeOK
  <2>3. QED
    BY <1>2, <2>1, <2>2 DEF Register
<1>3. CASE ReadUser(c) \/ ReadSession(c) \/ ReadPending(c)
  <2>1. PICK p \in {"userRead", "sessionRead", "admitted"} :
          phase[c] # "idle" /\ (Rejected(c) \/ (Go(c, p) /\ UNCHANGED <<prep, tables>>))
    BY <1>3 DEF ReadUser, ReadSession, ReadPending, Check
  <2>2. QED
    BY <2>1, MoveType, RejectedType DEF Talking
<1>4. CASE Respond(c)
  BY <1>4, RejectedType DEF Respond
<1>5. CASE Logout(c)
  <2>1. req[c] \in TokenRequests
    BY <1>5, RequestShape DEF Logout, TypeInv
  <2>2. sessions' \in [Sessions -> Session \cup {None}]
    BY <1>5, <2>1 DEF Logout, TypeInv, TypeOK, TokenRequests, Session, Live, Revoke
  <2>3. QED
    BY <1>5, <2>2, WroteRows DEF Logout, TypeInv, TypeOK
<1>6. CASE CheckRecovery(c)
  BY <1>6, MoveType, RejectedType DEF CheckRecovery, Talking
<1>7. CASE RevokeSessions(c)
  BY <1>7, AllRevokedType, WroteRows DEF RevokeSessions, TypeInv, TypeOK
<1>8. QED
  BY <1>1, <1>2, <1>3, <1>4, <1>5, <1>6, <1>7 DEF SessionStep

\* One account changes its status.
LEMMA StatusRows ==
  ASSUME TypeInv, NEW u \in Users, NEW b \in BOOLEAN, NEW d \in BOOLEAN
  PROVE  /\ [users EXCEPT ![u].active = b] \in [Users -> User]
         /\ [users EXCEPT ![u].active = b, ![u].archived = d] \in [Users -> User]
BY DEF TypeInv, TypeOK, User

LEMMA StatusStepType ==
  ASSUME TypeInv, NEW c \in Clients, StatusStep(c), History
  PROVE  TypeInv'
<1> SUFFICES ASSUME ~ Rejected(c) PROVE TypeInv'
  BY RejectedType
<1>1. req[c] \in AccountRequests /\ req[c].user \in Users
  <2>1. req[c] \in AccountRequests
    BY RequestShape DEF StatusStep, SetActive, Archive, Deactivate, TypeInv
  <2>2. QED
    BY <2>1 DEF AccountRequests
<1>2. CASE SetActive(c)
  <2> DEFINE active == req[c].op = "unblock"
  <2>1. /\ users' = [users EXCEPT ![req[c].user].active = active]
        /\ sessions' = AllRevoked(req[c].user)
        /\ Answer(c)
        /\ UNCHANGED <<actions, authEmail>>
    BY <1>2 DEF SetActive
  <2>2. active \in BOOLEAN
    OBVIOUS
  <2> HIDE DEF active
  <2>3. users' \in [Users -> User]
    BY <1>1, <2>1, <2>2, StatusRows
  <2>4. QED
    BY <2>1, <2>3, AllRevokedType, WroteRows
<1>3. CASE Archive(c)
  <2>1. /\ users' = [users EXCEPT ![req[c].user].active = FALSE, ![req[c].user].archived = TRUE]
        /\ sessions' = AllRevoked(req[c].user)
        /\ Answer(c)
        /\ UNCHANGED <<actions, authEmail>>
    BY <1>3 DEF Archive
  <2>2. users' \in [Users -> User]
    BY <1>1, <2>1, StatusRows
  <2>3. QED
    BY <2>1, <2>2, AllRevokedType, WroteRows
<1>4. CASE Deactivate(c)
  <2>1. /\ users' = [users EXCEPT ![req[c].user].active = FALSE]
        /\ Answer(c)
        /\ UNCHANGED <<sessions, actions, authEmail>>
    BY <1>4 DEF Deactivate
  <2>2. users' \in [Users -> User]
    BY <1>1, <2>1, StatusRows
  <2>3. QED
    BY <2>1, <2>2, WroteRows DEF TypeInv, TypeOK
<1>5. QED
  BY <1>2, <1>3, <1>4 DEF StatusStep

\* A new row takes a free id, a change of status keeps the rest of the row.
LEMMA OpenedRows ==
  ASSUME TypeInv, NEW a \in Actions, NEW row \in EmailChange \cup Reset,
         actions[a] = None, actions' = [actions EXCEPT ![a] = row],
         UNCHANGED <<users, sessions, authEmail>>
  PROVE  RowsOK(users', sessions', actions', authEmail') /\ KindsKept
BY NoneAssumption DEF TypeInv, TypeOK, RowsOK, KindsKept

LEMMA ChangeStatus ==
  ASSUME TypeInv, NEW a \in Actions, actions[a] \in EmailChange,
         NEW st \in Pending \cup {"COMPLETED", "FAILED"}, SetStatus(a, st)
  PROVE  /\ actions' \in [Actions -> EmailChange \cup Reset \cup {None}]
         /\ KindsKept
BY DEF TypeInv, TypeOK, SetStatus, EmailChange, Reset, KindsKept

LEMMA ResetStatus ==
  ASSUME TypeInv, NEW a \in Actions, actions[a] \in Reset,
         NEW st \in {"REQUESTING", "COMPLETED", "FAILED"}, SetStatus(a, st)
  PROVE  /\ actions' \in [Actions -> EmailChange \cup Reset \cup {None}]
         /\ KindsKept
BY DEF TypeInv, TypeOK, SetStatus, EmailChange, Reset, KindsKept

\* Opening an action: the handler keeps the action and the e-mail of the user.
LEMMA OpenType ==
  ASSUME TypeInv, NEW c \in Clients, phase[c] # "idle", req[c].user \in Users,
         NEW row \in Kind(c), Open(c, row), History
  PROVE  TypeInv'
<1>1. PICK a \in Actions :
        /\ actions[a] = None
        /\ actions' = [actions EXCEPT ![a] = row]
        /\ Keep(c, [action |-> a, email |-> users[req[c].user].email, ok |-> FALSE])
        /\ Go(c, "calling")
        /\ UNCHANGED <<users, sessions, authEmail>>
  BY DEF Open
<1>2. RowsOK(users', sessions', actions', authEmail') /\ KindsKept
  BY <1>1, OpenedRows DEF Kind
<1>3. users[req[c].user].email \in Emails
  BY DEF TypeInv, TypeOK, User
<1>4. actions'[a] \in Kind(c)
  BY <1>1 DEF TypeInv, TypeOK
<1>5. QED
  BY <1>1, <1>2, <1>3, <1>4, GoType

LEMMA ResetStepType ==
  ASSUME TypeInv, NEW c \in Clients, ResetStep(c), History
  PROVE  TypeInv'
<1>1. req[c] \in AccountRequests /\ req[c].op = "reset" /\ phase[c] # "idle"
  BY RequestShape DEF ResetStep, BeginReset, SendReset, CloseReset, TypeInv
<1>2. phase[c] \in Talking => /\ prep[c] \in [action : Actions, email : Emails, ok : BOOLEAN]
                             /\ actions[prep[c].action] \in Reset
  BY <1>1 DEF TypeInv, PrepOK, Kind
<1>3. CASE BeginReset(c)
  <2> DEFINE row == [kind |-> "PASSWORD_RESET_REQUEST", target |-> req[c].user, recent |-> TRUE,
                     status |-> "REQUESTING"]
  <2>1. row \in Kind(c) /\ req[c].user \in Users
    BY <1>1 DEF Kind, Reset, AccountRequests
  <2>2. Open(c, row) \/ Rejected(c)
    BY <1>3 DEF BeginReset
  <2>3. QED
    BY <1>1, <2>1, <2>2, OpenType, RejectedType
<1>4. CASE SendReset(c)
  <2>1. PICK ok \in BOOLEAN : Keep(c, [prep[c] EXCEPT !.ok = ok])
    BY <1>4 DEF SendReset
  <2>2. [prep[c] EXCEPT !.ok = ok] \in [action : Actions, email : Emails, ok : BOOLEAN]
        /\ [prep[c] EXCEPT !.ok = ok].action = prep[c].action
    BY <1>2, <1>4 DEF SendReset, Talking
  <2>3. actions'[prep[c].action] \in Kind(c)
    BY <1>1, <1>2, <1>4 DEF SendReset, Talking, Kind
  <2>4. QED
    BY <1>1, <1>4, <2>1, <2>2, <2>3, GoType, UnchangedRows DEF SendReset
<1>5. CASE CloseReset(c)
  <2>1. actions' \in [Actions -> EmailChange \cup Reset \cup {None}] /\ KindsKept
    BY <1>2, <1>5, ResetStatus DEF CloseReset, Talking
  <2>2. RowsOK(users', sessions', actions', authEmail')
    BY <1>5, <2>1 DEF CloseReset, RowsOK, TypeInv, TypeOK
  <2>3. QED
    BY <1>5, <2>1, <2>2, AnswerType DEF CloseReset
<1>6. QED
  BY <1>3, <1>4, <1>5 DEF ResetStep

\* What a handler that talks to Auth about an e-mail change keeps.
LEMMA Kept ==
  ASSUME TypeInv, NEW c \in Clients, phase[c] \in Talking, req[c].op # "reset"
  PROVE  /\ prep[c] \in [action : Actions, email : Emails, ok : BOOLEAN]
         /\ actions[prep[c].action] \in EmailChange
         /\ Kind(c) = EmailChange
BY DEF TypeInv, PrepOK, Kind

\* A step that writes the status of an e-mail change, and nothing else.
LEMMA StatusWritten ==
  ASSUME TypeInv, NEW c \in Clients, phase[c] \in Talking, req[c].op # "reset",
         NEW st \in Pending \cup {"COMPLETED", "FAILED"}, SetStatus(prep[c].action, st),
         users' \in [Users -> User], sessions' \in [Sessions -> Session \cup {None}],
         UNCHANGED authEmail
  PROVE  RowsOK(users', sessions', actions', authEmail') /\ KindsKept
<1>1. prep[c].action \in Actions /\ actions[prep[c].action] \in EmailChange
  BY Kept
<1>2. actions' \in [Actions -> EmailChange \cup Reset \cup {None}] /\ KindsKept
  BY <1>1, ChangeStatus
<1>3. QED
  BY <1>2 DEF RowsOK, TypeInv, TypeOK

LEMMA CallAuthType ==
  ASSUME TypeInv, NEW c \in Clients, CallAuth(c), History
  PROVE  TypeInv'
<1>1. /\ req[c] \in ChangeRequests /\ req[c].op = "changeEmail"
      /\ phase[c] \in Talking /\ phase[c] # "idle"
  BY RequestShape DEF CallAuth, Talking, TypeInv
<1>2. /\ prep[c] \in [action : Actions, email : Emails, ok : BOOLEAN]
      /\ actions[prep[c].action] \in EmailChange
      /\ Kind(c) = EmailChange
  BY <1>1, Kept
<1>3. Go(c, "answered") /\ UNCHANGED <<users, sessions, actions>>
  BY DEF CallAuth
<1>4. CASE /\ authEmail' = [authEmail EXCEPT ![req[c].user] = req[c].email]
           /\ \E ok \in {TRUE} \cup {~ LossyAuth} :
                Keep(c, [prep[c] EXCEPT !.email = req[c].email, !.ok = ok])
  <2>1. PICK ok \in BOOLEAN : Keep(c, [prep[c] EXCEPT !.email = req[c].email, !.ok = ok])
    BY <1>4, SwitchAssumption
  <2> DEFINE x == [prep[c] EXCEPT !.email = req[c].email, !.ok = ok]
  <2>2. req[c].email \in Emails
    BY <1>1 DEF ChangeRequests
  <2>3. x \in [action : Actions, email : Emails, ok : BOOLEAN] /\ x.action = prep[c].action
    BY <1>2, <2>2
  <2>4. RowsOK(users', sessions', actions', authEmail') /\ KindsKept
    BY <1>3, <1>4, <2>2 DEF RowsOK, KindsKept, TypeInv, TypeOK
  <2>5. prep' = [prep EXCEPT ![c] = x]
    BY <2>1
  <2>6. actions'[x.action] \in Kind(c)
    BY <1>2, <1>3, <2>3
  <2> HIDE DEF x
  <2>7. QED
    BY <1>1, <1>3, <2>3, <2>4, <2>5, <2>6, GoType
<1>5. CASE UNCHANGED <<authEmail, prep>>
  <2>1. prep' = [prep EXCEPT ![c] = prep[c]]
    BY <1>5 DEF TypeInv
  <2>2. QED
    BY <1>1, <1>2, <1>3, <1>5, <2>1, GoType, UnchangedRows
<1>6. QED
  BY <1>4, <1>5 DEF CallAuth

LEMMA EmailStepType ==
  ASSUME TypeInv, NEW c \in Clients, EmailStep(c), History
  PROVE  TypeInv'
<1> SUFFICES ASSUME ~ Rejected(c) PROVE TypeInv'
  BY RejectedType
<1>1. CASE BeginChange(c)
  <2>1. req[c] \in ChangeRequests /\ phase[c] # "idle" /\ req[c].op = "changeEmail"
    BY <1>1, RequestShape DEF BeginChange, TypeInv
  <2>2. req[c].user \in Users /\ req[c].email \in Emails
    BY <2>1 DEF ChangeRequests
  <2>3. ChangeRow(req[c]) \in Kind(c)
    BY <2>1, <2>2 DEF ChangeRow, Kind, EmailChange, TypeInv, TypeOK, User, Pending
  <2>4. Open(c, ChangeRow(req[c]))
    BY <1>1 DEF BeginChange
  <2>5. QED
    BY <2>1, <2>2, <2>3, <2>4, OpenType
<1>2. CASE CallAuth(c)
  BY <1>2, CallAuthType
<1>3. CASE NoteAnswer(c)
  <2>1. phase[c] \in Talking /\ req[c].op # "reset" /\ phase[c] # "idle"
    BY <1>3 DEF NoteAnswer, Talking
  <2>2. CASE SetStatus(prep[c].action, "FAILED") /\ Answer(c)
    BY <1>3, <2>1, <2>2, StatusWritten, AnswerType DEF NoteAnswer, TypeInv, TypeOK
  <2>3. CASE SetStatus(prep[c].action, "AUTH_UPDATED") /\ Go(c, "finishing") /\ UNCHANGED prep
    <3>1. RowsOK(users', sessions', actions', authEmail') /\ KindsKept
      BY <1>3, <2>1, <2>3, StatusWritten DEF NoteAnswer, TypeInv, TypeOK, Pending
    <3>2. prep' = [prep EXCEPT ![c] = prep[c]]
      BY <2>3 DEF TypeInv
    <3>3. actions'[prep[c].action] \in Kind(c)
      BY <2>1, <3>1, Kept DEF KindsKept
    <3>4. QED
      BY <2>1, <2>3, <3>1, <3>2, <3>3, Kept, GoType
  <2>4. QED
    BY <1>3, <2>2, <2>3 DEF NoteAnswer
<1>4. CASE FinishChange(c)
  <2>1. phase[c] \in Talking /\ req[c].op # "reset"
    BY <1>4 DEF FinishChange, Talking, TypeInv, PrepOK
  <2>2. prep[c].email \in Emails
    BY <2>1, Kept
  <2>3. users' = [users EXCEPT ![req[c].user].email = prep[c].email]
    BY <1>4 DEF FinishChange
  <2>4. users' \in [Users -> User]
    BY <2>2, <2>3 DEF TypeInv, TypeOK, User
  <2>5. sessions' \in [Sessions -> Session \cup {None}]
    BY <1>4, AllRevokedType DEF FinishChange
  <2>6. QED
    BY <1>4, <2>1, <2>4, <2>5, StatusWritten, AnswerType DEF FinishChange
<1>5. CASE FinishFails(c) \/ MarkFailed(c)
  <2>1. phase[c] \in Talking /\ req[c].op # "reset"
    BY <1>5 DEF FinishFails, MarkFailed, Talking
  <2>2. QED
    BY <1>5, <2>1, StatusWritten, AnswerType
       DEF FinishFails, MarkFailed, Unfinished, Pending, TypeInv, TypeOK
<1>6. CASE ReadAction(c)
  <2>1. phase[c] # "idle" /\ req[c].op # "reset"
    BY <1>6 DEF ReadAction
  <2>2. PICK a \in PendingChanges(req[c].user) :
          /\ Keep(c, [action |-> a, email |-> actions[a].new, ok |-> TRUE])
          /\ Go(c, "asking")
          /\ UNCHANGED tables
    BY <1>6 DEF ReadAction
  <2>3. a \in Actions /\ actions[a] \in EmailChange
    BY <2>2 DEF PendingChanges, TypeInv, TypeOK, Reset, Pending
  <2>4. actions[a].new \in Emails
    BY <2>3 DEF EmailChange
  <2>5. QED
    BY <2>1, <2>2, <2>3, <2>4, GoType, UnchangedRows DEF Kind
<1>7. CASE AskAuth(c)
  <2>1. phase[c] \in Talking /\ req[c].op # "reset" /\ phase[c] # "idle"
    BY <1>7 DEF AskAuth, Talking
  <2>2. PICK p \in {"finishing", "failing"} : Go(c, p) /\ UNCHANGED <<prep, tables>>
    BY <1>7 DEF AskAuth
  <2>3. prep' = [prep EXCEPT ![c] = prep[c]]
    BY <2>2 DEF TypeInv
  <2>4. QED
    BY <2>1, <2>2, <2>3, Kept, GoType, UnchangedRows
<1>8. QED
  BY <1>1, <1>2, <1>3, <1>4, <1>5, <1>6, <1>7 DEF EmailStep

LEMMA SubmitType ==
  ASSUME TypeInv, NEW c \in Clients, NEW q \in Requests, Submit(c, q), History
  PROVE  TypeInv'
<1>1. stale' \subseteq Sessions /\ seen' \in [Clients -> BOOLEAN]
  BY DEF TypeInv, TypeOK, History, Carries, Usable, Active
<1>2. TypeOK'
  <2>1. issued' \in 0..MaxRequests
    BY SwitchAssumption DEF Submit, TypeInv, TypeOK
  <2>2. QED
    BY <1>1, <2>1 DEF Submit, TypeInv, TypeOK
<1>3. PrepOK'
  BY DEF Submit, TypeInv, TypeOK, PrepOK, Talking, Kind
<1>4. QED
  BY <1>2, <1>3 DEF TypeInv, Submit, TypeOK

LEMMA ExpireType ==
  ASSUME TypeInv, NEW a \in Actions, Expire(a), History
  PROVE  TypeInv'
<1>1. stale' \subseteq Sessions /\ seen' \in [Clients -> BOOLEAN]
  BY DEF TypeInv, TypeOK, History, Carries, Usable, Active
<1>2. actions[a] \in Reset
  BY DEF Expire, RunningResets, TypeInv, TypeOK, EmailChange, Pending
<1>3. actions' \in [Actions -> EmailChange \cup Reset \cup {None}] /\ KindsKept
  BY <1>2 DEF Expire, KindsKept, TypeInv, TypeOK, Reset, EmailChange
<1>4. TypeOK'
  BY <1>1, <1>3 DEF TypeInv, TypeOK, Expire
<1>5. PrepOK'
  BY <1>3 DEF TypeInv, TypeOK, PrepOK, Expire, KindsKept, Kind
<1>6. QED
  BY <1>4, <1>5 DEF TypeInv, Expire

LEMMA StepType ==
  ASSUME TypeInv, [Next]_vars
  PROVE  TypeInv'
<1>1. CASE UNCHANGED vars
  BY <1>1 DEF vars, TypeInv, TypeOK, PrepOK, Kind
<1>2. CASE Next
  <2>1. CASE \E a \in Actions : Expire(a)
    BY <1>2, <2>1, ExpireType DEF Next
  <2>2. ASSUME NEW c \in Clients,
               (\E q \in Requests : Submit(c, q)) \/ SessionStep(c) \/ StatusStep(c)
                 \/ ResetStep(c) \/ EmailStep(c) \/ Fail(c)
        PROVE  TypeInv'
    BY <1>2, <2>2, SubmitType, SessionStepType, StatusStepType, ResetStepType, EmailStepType,
       RejectedType DEF Next, Fail
  <2>3. QED
    BY <1>2, <2>1, <2>2 DEF Next, Step
<1>3. QED
  BY <1>1, <1>2

\* Every table holds rows of the schema, and every e-mail change knows the old and
\* the new e-mail, whatever handlers run, fail or crash.
THEOREM TypesHold == Spec => []TypeOK
<1>1. TypeInv => TypeOK
  BY DEF TypeInv
<1>2. QED
  BY <1>1, InitType, StepType, PTL DEF Spec

(***************************************************************************)
(* Sessions.  A step may register a free session, revoke a session, or     *)
(* change an account; an account that becomes active has none left.        *)
(***************************************************************************)
\* A session that exists keeps its user; one that is revoked stays so.
SessionsKept ==
  \A s \in Sessions : Registered(s) =>
    /\ Registered(s)'
    /\ sessions'[s].user = sessions[s].user
    /\ sessions[s].revoked => sessions'[s].revoked

\* An account only becomes active by a step that revokes its sessions.
ActivationRevokes ==
  \A s \in Sessions : Registered(s) =>
    LET u == sessions[s].user IN
    ~ Active(users[u]) /\ Active(users'[u]) => sessions'[s].revoked

\* That is all it takes.
LEMMA StaleStep ==
  ASSUME TypeInv, SessionInv, SessionsKept, ActivationRevokes, History
  PROVE  StaleNeverUsable' /\ \A s \in stale' : Registered(s)'
<1> SUFFICES ASSUME NEW s \in stale'
             PROVE  ~ Usable(users', sessions', s) /\ Registered(s)'
  BY DEF StaleNeverUsable
<1>1. s \in stale \/ (s \in Sessions /\ Registered(s) /\ ~ Active(users'[sessions[s].user]))
  BY DEF History
<1>2. s \in Sessions /\ Registered(s)
  BY <1>1 DEF SessionInv, TypeInv, TypeOK
<1>3. CASE s \in stale
  BY <1>2, <1>3 DEF SessionInv, StaleNeverUsable, Usable, SessionsKept, ActivationRevokes,
                    Registered
<1>4. CASE ~ Active(users'[sessions[s].user])
  BY <1>2, <1>4 DEF SessionsKept, Usable, Registered
<1>5. QED
  BY <1>1, <1>3, <1>4

LEMMA RevokedAll ==
  ASSUME TypeInv, NEW u, sessions' = AllRevoked(u)
  PROVE  /\ SessionsKept
         /\ \A s \in Sessions : Registered(s)' <=> Registered(s)
         /\ \A s \in Sessions : Registered(s) /\ sessions[s].user = u => sessions'[s].revoked
<1> SUFFICES ASSUME NEW s \in Sessions
             PROVE  /\ Registered(s)' <=> Registered(s)
                    /\ Registered(s) =>
                         /\ sessions'[s].user = sessions[s].user
                         /\ sessions[s].revoked => sessions'[s].revoked
                         /\ sessions[s].user = u => sessions'[s].revoked
  BY DEF SessionsKept
<1>1. sessions'[s] = IF Live(s) /\ sessions[s].user = u THEN Revoke(sessions[s]) ELSE sessions[s]
  BY DEF AllRevoked
<1>2. Registered(s) => /\ sessions[s] \in Session /\ sessions[s].user \in Users
                        /\ Revoke(sessions[s]) \in Session
  BY DEF Registered, Revoke, TypeInv, TypeOK, Session
<1>3. /\ Revoke(sessions[s]).user = sessions[s].user
      /\ Revoke(sessions[s]).revoked
  BY DEF Revoke
<1>4. CASE Live(s) /\ sessions[s].user = u
  BY <1>1, <1>2, <1>3, <1>4, NoneAssumption DEF Registered, Live
<1>5. CASE ~ (Live(s) /\ sessions[s].user = u)
  BY <1>1, <1>2, <1>5 DEF Registered, Live
<1>6. QED
  BY <1>4, <1>5

\* A step that sends no request and registers no session.
Quiet ==
  /\ \A d \in Clients : req'[d] \in {req[d], None}
  /\ \A s \in Sessions : Registered(s)' => Registered(s)

LEMMA QuietLogins ==
  ASSUME TypeInv, LoginsOK, Quiet
  PROVE  LoginsOK'
<1> SUFFICES ASSUME NEW c \in Clients, req'[c] # None, req'[c].op = "login"
             PROVE  /\ sessions'[req'[c].session] = None
                    /\ \A d \in Clients \ {c} : req'[d] # None /\ req'[d].op = "login"
                                                  => req'[d].session # req'[c].session
  BY DEF LoginsOK, Registered
<1>1. req'[c] = req[c] /\ req[c] \in LoginRequests
  BY RequestShape DEF Quiet, TypeInv, TypeOK
<1>2. req[c].session \in Sessions
  BY <1>1 DEF LoginRequests
<1>3. QED
  BY <1>1, <1>2 DEF LoginsOK, Quiet, Registered

\* What each step has to show.
StepKeeps == SessionsKept /\ ActivationRevokes /\ LoginsOK'

LEMMA AnswerQuiet ==
  ASSUME TypeInv, NEW c \in Clients, Answer(c) \/ UNCHANGED req
  PROVE  \A d \in Clients : req'[d] \in {req[d], None}
BY DEF Answer, TypeInv, TypeOK

\* Steps that leave users and sessions alone.
LEMMA IdleStep ==
  ASSUME TypeInv, LoginsOK, NEW c \in Clients, Answer(c) \/ UNCHANGED req,
         UNCHANGED <<users, sessions>>
  PROVE  StepKeeps
<1>1. Quiet
  BY AnswerQuiet DEF Quiet, Registered
<1>2. QED
  BY <1>1, QuietLogins DEF StepKeeps, SessionsKept, ActivationRevokes, Registered

\* Steps that leave sessions alone and activate nobody.
LEMMA CalmStep ==
  ASSUME TypeInv, LoginsOK, NEW c \in Clients, Answer(c),
         UNCHANGED sessions, \A u \in Users : Active(users'[u]) => Active(users[u])
  PROVE  StepKeeps
<1>1. Quiet
  BY AnswerQuiet DEF Quiet, Registered
<1>2. \A s \in Sessions : Registered(s) => sessions[s].user \in Users
  BY DEF Registered, TypeInv, TypeOK, Session
<1>3. QED
  BY <1>1, <1>2, QuietLogins DEF StepKeeps, SessionsKept, ActivationRevokes, Registered

\* Steps that revoke all sessions of u, and activate nobody else.
LEMMA RevokingStep ==
  ASSUME TypeInv, LoginsOK, NEW c \in Clients, NEW u, Answer(c),
         sessions' = AllRevoked(u),
         \A v \in Users \ {u} : Active(users'[v]) => Active(users[v])
  PROVE  StepKeeps
<1>1. /\ SessionsKept
      /\ \A s \in Sessions : Registered(s)' <=> Registered(s)
      /\ \A s \in Sessions : Registered(s) /\ sessions[s].user = u => sessions'[s].revoked
  BY RevokedAll
<1>2. Quiet
  BY <1>1, AnswerQuiet DEF Quiet
<1>3. \A s \in Sessions : Registered(s) => sessions[s].user \in Users
  BY DEF Registered, TypeInv, TypeOK, Session
<1>4. ActivationRevokes
  BY <1>1, <1>3 DEF ActivationRevokes
<1>5. QED
  BY <1>1, <1>2, <1>4, QuietLogins DEF StepKeeps

LEMMA SubmitSessions ==
  ASSUME TypeInv, LoginsOK, NEW c \in Clients, NEW q \in Requests, Submit(c, q)
  PROVE  StepKeeps
<1>1. SessionsKept /\ ActivationRevokes
  BY DEF Submit, SessionsKept, ActivationRevokes, Registered
<1>2. /\ req' = [req EXCEPT ![c] = q] /\ Possible(q) /\ UNCHANGED sessions
  BY DEF Submit
<1>3. ASSUME NEW d \in Clients, NEW e \in Clients \ {d},
             req'[d] # None, req'[d].op = "login", req'[e] # None, req'[e].op = "login"
      PROVE  req'[e].session # req'[d].session
  BY <1>2, <1>3 DEF TypeInv, TypeOK, LoginsOK, Possible
<1>4. ASSUME NEW d \in Clients, req'[d] # None, req'[d].op = "login"
      PROVE  sessions'[req'[d].session] = None
  BY <1>2, <1>4 DEF TypeInv, TypeOK, LoginsOK, Possible, Registered
<1>5. LoginsOK'
  BY <1>3, <1>4 DEF LoginsOK, Registered
<1>6. QED
  BY <1>1, <1>5 DEF StepKeeps

LEMMA RegisterSessions ==
  ASSUME TypeInv, LoginsOK, NEW c \in Clients, Register(c), ~ Rejected(c)
  PROVE  StepKeeps
<1> DEFINE s == req[c].session
<1>1. /\ sessions' = [sessions EXCEPT ![s] = [user |-> req[c].user, revoked |-> FALSE]]
      /\ Answer(c)
      /\ UNCHANGED users
  BY DEF Register
<1>2. req[c] \in LoginRequests /\ req[c].op = "login" /\ req[c] # None
  BY RequestShape, NoneAssumption, RequestAssumption DEF Register, TypeInv
<1>3. s \in Sessions /\ ~ Registered(s)
  BY <1>2 DEF LoginRequests, LoginsOK
<1>4. \A t \in Sessions \ {s} : sessions'[t] = sessions[t]
  BY <1>1, <1>3 DEF TypeInv, TypeOK
<1> HIDE DEF s
<1>5. SessionsKept /\ ActivationRevokes
  BY <1>1, <1>3, <1>4 DEF SessionsKept, ActivationRevokes, Registered
<1>6. \A d \in Clients : req'[d] \in {req[d], None} /\ req'[c] = None
  BY <1>1 DEF Answer, TypeInv, TypeOK
<1>7. ASSUME NEW d \in Clients, req'[d] # None, req'[d].op = "login"
      PROVE  sessions'[req'[d].session] = None
  <2>1. d # c /\ req'[d] = req[d] /\ req[d] \in Requests
    BY <1>6, <1>7 DEF TypeInv, TypeOK
  <2>2. req[d].session \in Sessions \ {s}
    BY <1>2, <1>7, <2>1, RequestShape DEF LoginsOK, LoginRequests, s
  <2>3. QED
    BY <1>4, <1>7, <2>1, <2>2 DEF LoginsOK, Registered
<1>8. LoginsOK'
  BY <1>6, <1>7 DEF LoginsOK, Registered
<1>9. QED
  BY <1>5, <1>8 DEF StepKeeps

LEMMA LogoutSessions ==
  ASSUME TypeInv, LoginsOK, NEW c \in Clients, Logout(c)
  PROVE  StepKeeps
<1>1. UNCHANGED users /\ Answer(c)
  BY DEF Logout
<1>2. \A s \in Sessions :
        \/ sessions'[s] = sessions[s]
        \/ Live(s) /\ sessions'[s] = Revoke(sessions[s])
  BY DEF Logout, TypeInv, TypeOK
<1>3. ASSUME NEW s \in Sessions, Registered(s)
      PROVE  /\ sessions'[s] # None
             /\ sessions'[s].user = sessions[s].user
             /\ sessions[s].revoked => sessions'[s].revoked
  <2>1. Revoke(sessions[s]) \in Session /\ Revoke(sessions[s]).user = sessions[s].user
    BY <1>3 DEF Registered, Revoke, Session, TypeInv, TypeOK
  <2>2. QED
    BY <1>2, <1>3, <2>1, NoneAssumption DEF Registered, Live
<1>4. Quiet
  BY <1>1, <1>2, AnswerQuiet DEF Quiet, Registered, Live
<1>5. SessionsKept /\ ActivationRevokes
  BY <1>1, <1>3 DEF SessionsKept, ActivationRevokes, Registered
<1>6. QED
  BY <1>4, <1>5, QuietLogins DEF StepKeeps

LEMMA SessionStepKeeps ==
  ASSUME TypeInv, LoginsOK, NEW c \in Clients, SessionStep(c)
  PROVE  StepKeeps
<1>1. CASE Rejected(c)
  BY <1>1, IdleStep DEF Rejected
<1>2. CASE ~ Rejected(c) /\ Register(c)
  BY <1>2, RegisterSessions
<1>3. CASE Logout(c)
  BY <1>3, LogoutSessions
<1>4. CASE RevokeSessions(c)
  BY <1>4, RevokingStep DEF RevokeSessions
<1>5. CASE ~ Rejected(c) /\ (SignIn(c) \/ ReadUser(c) \/ ReadSession(c) \/ ReadPending(c)
                              \/ Respond(c) \/ CheckRecovery(c))
  BY <1>5, IdleStep DEF SignIn, ReadUser, ReadSession, ReadPending, Check, Respond, CheckRecovery
<1>6. QED
  BY <1>1, <1>2, <1>3, <1>4, <1>5 DEF SessionStep

LEMMA StatusStepKeeps ==
  ASSUME TypeInv, LoginsOK, NEW c \in Clients, StatusStep(c)
  PROVE  StepKeeps
<1>1. CASE Rejected(c)
  BY <1>1, IdleStep DEF Rejected
<1>2. CASE ~ Rejected(c) /\ (SetActive(c) \/ Archive(c))
  <2>1. /\ sessions' = AllRevoked(req[c].user) /\ Answer(c)
        /\ \A v \in Users \ {req[c].user} : users'[v] = users[v]
    BY <1>2 DEF SetActive, Archive, TypeInv, TypeOK
  <2>2. QED
    BY <2>1, RevokingStep
<1>3. CASE ~ Rejected(c) /\ Deactivate(c)
  <2> DEFINE u == req[c].user
  <2>1. /\ users' = [users EXCEPT ![u].active = FALSE]
        /\ Answer(c) /\ UNCHANGED sessions
    BY <1>3 DEF Deactivate
  <2>2. \A v \in Users : Active(users'[v]) => Active(users[v])
    BY <2>1 DEF Active, TypeInv, TypeOK, User
  <2>3. QED
    BY <2>1, <2>2, CalmStep
<1>4. QED
  BY <1>1, <1>2, <1>3 DEF StatusStep

LEMMA EmailStepKeeps ==
  ASSUME TypeInv, LoginsOK, NEW c \in Clients, EmailStep(c) \/ ResetStep(c)
  PROVE  StepKeeps
<1>1. CASE FinishChange(c)
  <2> DEFINE u == req[c].user
  <2>1. /\ users' = [users EXCEPT ![u].email = prep[c].email]
        /\ sessions' = AllRevoked(u) /\ Answer(c)
    BY <1>1 DEF FinishChange
  <2>2. \A v \in Users \ {u} : users'[v] = users[v]
    BY <2>1 DEF TypeInv, TypeOK
  <2> HIDE DEF u
  <2>3. QED
    BY <2>1, <2>2, RevokingStep
<1>2. CASE ~ FinishChange(c)
  BY <1>2, IdleStep
     DEF EmailStep, ResetStep, BeginReset, SendReset, CloseReset, BeginChange, CallAuth,
         NoteAnswer, FinishFails, ReadAction, AskAuth, MarkFailed, Open, Rejected
<1>3. QED
  BY <1>1, <1>2

LEMMA NextSessions ==
  ASSUME TypeInv, SessionInv, [Next]_vars
  PROVE  SessionInv'
<1>1. CASE UNCHANGED vars
  BY <1>1 DEF vars, SessionInv, LoginsOK, StaleNeverUsable, Usable, Registered
<1>2. CASE Next
  <2>1. StepKeeps
    <3>1. CASE \E a \in Actions : Expire(a)
      <4>1. UNCHANGED <<users, sessions, req>>
        BY <3>1 DEF Expire
      <4>2. QED
        BY <4>1 DEF StepKeeps, SessionsKept, ActivationRevokes, Registered, SessionInv, LoginsOK
    <3>2. ASSUME NEW c \in Clients,
                 (\E q \in Requests : Submit(c, q)) \/ SessionStep(c) \/ StatusStep(c)
                   \/ ResetStep(c) \/ EmailStep(c) \/ Fail(c)
          PROVE  StepKeeps
      <4>1. CASE Fail(c)
        BY <4>1, IdleStep DEF Fail, Rejected, SessionInv
      <4>2. QED
        BY <3>2, <4>1, SubmitSessions, SessionStepKeeps, StatusStepKeeps, EmailStepKeeps
           DEF SessionInv
    <3>3. QED
      BY <1>2, <3>1, <3>2 DEF Next, Step
  <2>2. QED
    BY <1>2, <2>1, StaleStep DEF Next, StepKeeps, SessionInv
<1>3. QED
  BY <1>1, <1>2

\* A session that was open when its account was blocked, archived or soft-deleted is
\* never usable again, whatever sign-ins, unblocks, repairs and crashes follow.
THEOREM SessionsEnd == Spec => []StaleNeverUsable
<1>1. Init => SessionInv
  BY DEF Init, SessionInv, LoginsOK, StaleNeverUsable
<1>2. SessionInv => StaleNeverUsable
  BY DEF SessionInv
<1>3. QED
  BY <1>1, <1>2, InitType, StepType, NextSessions, PTL DEF Spec

(***************************************************************************)
(* Admission.  The account was active when it was read, and a session that *)
(* is found live afterwards was live at that moment as well, because one   *)
(* that is revoked stays so: the token was usable then.                    *)
(***************************************************************************)
Reading == {"userRead", "sessionRead", "admitted"}
Judged(c) ==
  /\ phase[c] \in Reading => req[c].op \in {"use", "logout"}
  /\ phase[c] \in Deciding /\ req[c].op \in {"use", "logout"} => Registered(req[c].session)
  /\ phase[c] = "userRead" /\ Live(req[c].session) => seen[c]
  /\ phase[c] \in {"sessionRead", "admitted"} => seen[c]
AdmissionInv == \A c \in Clients : Judged(c)

\* The session a token names.
LEMMA TokenSession ==
  ASSUME TypeInv, NEW c \in Clients, phase[c] # "idle", req[c].op \in {"use", "logout"}
  PROVE  req[c] # None /\ req[c].session \in Sessions
<1>1. req[c] \in TokenRequests /\ req[c] \in Requests
  BY RequestShape DEF TypeInv
<1>2. QED
  BY <1>1, NoneAssumption, RequestAssumption DEF TokenRequests

\* A handler that does not move has still seen what it has seen.
LEMMA JudgedStays ==
  ASSUME TypeInv, SessionsKept, History, NEW d \in Clients, Judged(d),
         req'[d] = req[d], phase'[d] = phase[d]
  PROVE  Judged(d)'
<1>1. CASE phase[d] \in Deciding /\ req[d].op \in {"use", "logout"}
  <2> DEFINE s == req[d].session
  <2>1. req[d] # None /\ s \in Sessions /\ Registered(s)
    BY <1>1, TokenSession DEF Judged, Deciding
  <2>2. Carries(req'[d], phase'[d])
    BY <1>1, <2>1 DEF Carries
  <2>3. seen[d] => seen'[d]
    BY <2>2 DEF History
  <2>4. sessions'[s] # None /\ (sessions[s].revoked => sessions'[s].revoked)
    BY <2>1 DEF SessionsKept, Registered
  <2>5. QED
    BY <2>1, <2>3, <2>4 DEF Judged, Registered, Live, Reading
<1>2. CASE ~(phase[d] \in Deciding /\ req[d].op \in {"use", "logout"})
  BY <1>2 DEF Judged, Deciding, Reading
<1>3. QED
  BY <1>1, <1>2

\* Where a handler may go without being judged.
LEMMA JudgedElsewhere ==
  ASSUME NEW d \in Clients, phase'[d] \notin Deciding PROVE Judged(d)'
BY DEF Judged, Deciding, Reading

\* A step of c leaves the other handlers where they are.
LEMMA OthersJudged ==
  ASSUME TypeInv, SessionsKept, History, AdmissionInv, NEW c \in Clients,
         \A d \in Clients \ {c} : req'[d] = req[d] /\ phase'[d] = phase[d],
         Judged(c)'
  PROVE  AdmissionInv'
<1>1. ASSUME NEW d \in Clients PROVE Judged(d)'
  <2>1. CASE d # c
    BY <2>1, JudgedStays DEF AdmissionInv
  <2>2. QED
    BY <2>1
<1>2. QED
  BY <1>1 DEF AdmissionInv

\* A handler that answers, or goes on to something that is no admission.
LEMMA UnjudgedStep ==
  ASSUME TypeInv, SessionsKept, History, AdmissionInv, NEW c \in Clients,
         NEW p, p \notin Deciding, Answer(c) \/ Go(c, p)
  PROVE  AdmissionInv'
<1>1. \A d \in Clients \ {c} : req'[d] = req[d] /\ phase'[d] = phase[d]
  BY DEF Answer, TypeInv, TypeOK
<1>2. phase'[c] \in {"idle", p}
  BY DEF Answer, TypeInv
<1>3. QED
  BY <1>1, <1>2, OthersJudged, JudgedElsewhere DEF Deciding

LEMMA SubmitJudged ==
  ASSUME TypeInv, SessionsKept, History, AdmissionInv,
         NEW c \in Clients, NEW q \in Requests, Submit(c, q)
  PROVE  AdmissionInv'
<1>1. /\ \A d \in Clients \ {c} : req'[d] = req[d] /\ phase'[d] = phase[d]
      /\ req'[c] = q /\ phase'[c] = "received" /\ UNCHANGED sessions
  BY DEF Submit, TypeInv, TypeOK
<1>2. Judged(c)'
  BY <1>1 DEF Submit, Possible, Judged, Registered, Reading
<1>3. QED
  BY <1>1, <1>2, OthersJudged

LEMMA ReadJudged ==
  ASSUME TypeInv, SessionsKept, History, AdmissionInv, NEW c \in Clients,
         ReadUser(c) \/ ReadSession(c) \/ ReadPending(c), ~Rejected(c)
  PROVE  AdmissionInv'
<1> DEFINE s == req[c].session
<1>1. /\ UNCHANGED <<tables, req>> /\ req[c].op \in {"use", "logout"}
      /\ \/ /\ phase[c] = "received" /\ phase' = [phase EXCEPT ![c] = "userRead"]
            /\ Active(users[Owner(c)])
         \/ /\ phase[c] = "userRead" /\ phase' = [phase EXCEPT ![c] = "sessionRead"]
            /\ Live(s)
         \/ phase[c] = "sessionRead" /\ phase' = [phase EXCEPT ![c] = "admitted"]
  BY DEF ReadUser, ReadSession, ReadPending, Check
<1>2. /\ req[c] # None /\ s \in Sessions /\ Registered(s) /\ Judged(c)
  BY <1>1, TokenSession DEF AdmissionInv, Judged, Deciding
<1>3. /\ \A d \in Clients \ {c} : req'[d] = req[d] /\ phase'[d] = phase[d]
      /\ req'[c] = req[c] /\ phase'[c] \in Reading
      /\ phase[c] = "received" => phase'[c] = "userRead"
      /\ phase[c] = "userRead" => phase'[c] = "sessionRead"
      /\ phase[c] = "sessionRead" => phase'[c] = "admitted"
  BY <1>1 DEF TypeInv, Reading
<1>4. Carries(req'[c], phase'[c])
  BY <1>1, <1>2, <1>3 DEF Carries, Deciding, Reading
<1>5. /\ seen[c] => seen'[c]
      /\ Usable(users', sessions', s) => seen'[c]
  BY <1>3, <1>4 DEF History
<1>6. Judged(c)'
  <2>1. CASE phase[c] = "received"
    <3>1. Live(s) => Usable(users', sessions', s)
      BY <1>1, <1>2, <2>1 DEF Usable, Live, Owner
    <3>2. QED
      BY <1>1, <1>2, <1>3, <1>5, <2>1, <3>1 DEF Judged, Live, Registered
  <2>2. CASE phase[c] \in {"userRead", "sessionRead"}
    BY <1>1, <1>2, <1>3, <1>5, <2>2 DEF Judged, Registered
  <2>3. QED
    BY <1>1, <2>1, <2>2
<1>7. QED
  BY <1>3, <1>6, OthersJudged

LEMMA NextAdmission ==
  ASSUME TypeInv, SessionInv, AdmissionInv, [Next]_vars
  PROVE  AdmissionInv'
<1>1. CASE UNCHANGED vars
  BY <1>1 DEF vars, AdmissionInv, Judged, Live, Registered
<1>2. CASE Next
  <2>1. History /\ LoginsOK
    BY <1>2 DEF Next, SessionInv
  <2>2. CASE \E a \in Actions : Expire(a)
    <3>1. UNCHANGED <<users, sessions, req, phase>>
      BY <2>2 DEF Expire
    <3>2. SessionsKept
      BY <3>1 DEF SessionsKept, Registered
    <3>3. QED
      BY <2>1, <3>1, <3>2, JudgedStays DEF AdmissionInv
  <2>3. ASSUME NEW c \in Clients,
               (\E q \in Requests : Submit(c, q)) \/ SessionStep(c) \/ StatusStep(c)
                 \/ ResetStep(c) \/ EmailStep(c) \/ Fail(c)
        PROVE  AdmissionInv'
    <3>1. SessionsKept
      <4>1. CASE Fail(c)
        BY <2>1, <4>1, IdleStep DEF Fail, Rejected, StepKeeps
      <4>2. QED
        BY <2>1, <2>3, <4>1, SubmitSessions, SessionStepKeeps, StatusStepKeeps, EmailStepKeeps
        DEF StepKeeps
    <3>2. CASE Answer(c)
      <4>1. \E p : p \notin Deciding /\ (Answer(c) \/ Go(c, p))
        <5>1. "idle" \notin Deciding
          BY DEF Deciding
        <5>2. QED
          BY <3>2, <5>1
      <4>2. QED
        BY <2>1, <3>1, <4>1, UnjudgedStep
    <3>3. CASE \E q \in Requests : Submit(c, q)
      BY <2>1, <3>1, <3>3, SubmitJudged
    <3>4. CASE ~Answer(c) /\ SessionStep(c)
      <4>1. CASE SignIn(c)
        BY <2>1, <3>1, <3>4, <4>1, UnjudgedStep DEF SignIn, Rejected, Deciding
      <4>2. CASE CheckRecovery(c)
        BY <2>1, <3>1, <3>4, <4>2, UnjudgedStep DEF CheckRecovery, Rejected, Deciding
      <4>3. CASE ReadUser(c) \/ ReadSession(c) \/ ReadPending(c)
        BY <2>1, <3>1, <3>4, <4>3, ReadJudged DEF Rejected
      <4>4. QED
        BY <3>4, <4>1, <4>2, <4>3
        DEF SessionStep, Register, Respond, Logout, RevokeSessions, Rejected
    <3>5. CASE ~Answer(c) /\ (StatusStep(c) \/ Fail(c))
      BY <3>5 DEF StatusStep, SetActive, Archive, Deactivate, Fail, Rejected
    <3>6. CASE ~Answer(c) /\ ResetStep(c)
      <4>1. \E p : p \notin Deciding /\ Go(c, p)
        BY <3>6 DEF ResetStep, BeginReset, SendReset, CloseReset, Open, Rejected, Deciding
      <4>2. QED
        BY <2>1, <3>1, <4>1, UnjudgedStep
    <3>7. CASE ~Answer(c) /\ EmailStep(c)
      <4>1. \E p : p \notin Deciding /\ Go(c, p)
        BY <3>7
        DEF EmailStep, BeginChange, CallAuth, NoteAnswer, FinishChange, FinishFails, ReadAction,
            AskAuth, MarkFailed, Open, Rejected, Deciding
      <4>2. QED
        BY <2>1, <3>1, <4>1, UnjudgedStep
    <3>8. QED
      BY <2>3, <3>2, <3>3, <3>4, <3>5, <3>6, <3>7
  <2>4. QED
    BY <1>2, <2>2, <2>3 DEF Next, Step
<1>3. QED
  BY <1>1, <1>2

\* A request that authMiddleware or refresh lets through carried a token that was
\* usable at one moment of the request, although the account and the session are
\* read at two.
THEOREM OnlyUsableAdmitted == Spec => []AdmittedWasUsable
<1>1. Init => SessionInv /\ AdmissionInv
  BY DEF Init, SessionInv, LoginsOK, StaleNeverUsable, AdmissionInv, Judged, Reading, Deciding
<1>2. AdmissionInv => AdmittedWasUsable
  BY DEF AdmissionInv, Judged, AdmittedWasUsable
<1>3. QED
  BY <1>1, <1>2, InitType, StepType, NextSessions, NextAdmission, PTL DEF Spec

(***************************************************************************)
(* Changes of an e-mail.  When an answer of Auth is never lost and a       *)
(* change is repaired only after its own request, the two e-mails of an    *)
(* account differ only while a change is open.                             *)
(***************************************************************************)
\* What a handler is doing about an action: opening and closing an e-mail change, repairing
\* one, or sending a reset.
Changing(c) == phase[c] \in {"calling", "answered", "finishing"} /\ req[c].op = "changeEmail"
Repairing(c) == phase[c] \in {"asking", "finishing", "failing"} /\ req[c].op = "reconcile"
Resetting(c) == phase[c] \in {"calling", "answered"} /\ req[c].op = "reset"

\* An e-mail change: Auth has the new e-mail exactly when the handler was told so.
ChangeOK(c) ==
  LET u == req[c].user IN
  Changing(c) =>
    /\ prep[c].action \in PendingChanges(u)
    /\ phase[c] = "calling" => ~ prep[c].ok
    /\ phase[c] = "finishing" => prep[c].ok
    /\ authEmail[u] = IF prep[c].ok THEN prep[c].email ELSE users[u].email

\* A repair: what was read of Auth still holds.
RepairOK(c) ==
  LET u == req[c].user
      a == prep[c].action
  IN Repairing(c) =>
       /\ a \in PendingChanges(u)
       /\ phase[c] = "finishing" => authEmail[u] = prep[c].email
       /\ phase[c] = "failing" => authEmail[u] = actions[a].old

\* A reset that is about to be sent keeps every change of the e-mail away.
ResetOK(c) ==
  LET u == req[c].user IN
  Resetting(c) /\ phase[c] = "calling" =>
    /\ prep[c].action \in RunningResets(u)
    /\ PendingChanges(u) = {}
    /\ prep[c].email = users[u].email

HandlerOK(c) ==
  /\ phase[c] \in Talking => Changing(c) \/ Repairing(c) \/ Resetting(c)
  /\ ChangeOK(c) /\ RepairOK(c) /\ ResetOK(c)

\* A repair has the account to itself; an action is closed by the handler that opened it.
Alone ==
  \A c, d \in Clients :
    /\ c # d /\ req[c] # None /\ req[d] # None
    /\ req[c].op = "reconcile" /\ req[d].op \in {"changeEmail", "reconcile"}
    => req[c].user # req[d].user
Opened(c) == Changing(c) \/ Resetting(c)
Apart ==
  \A c, d \in Clients :
    c # d /\ Opened(c) /\ Opened(d) => prep[c].action # prep[d].action

\* An account has one open change, from the e-mail it still has; without one its e-mail is
\* the one Auth has.
AccountOK(u) ==
  /\ \A a \in PendingChanges(u) : actions[a].old = users[u].email
  /\ \A a, b \in PendingChanges(u) : a = b
  /\ PendingChanges(u) = {} => users[u].email = authEmail[u]

ChangeInv ==
  /\ Alone /\ Apart
  /\ \A c \in Clients : HandlerOK(c)
  /\ \A u \in Users : AccountOK(u)

\* A step of c leaves the other handlers where they are.
Lone(c) ==
  \A d \in Clients \ {c} : req'[d] = req[d] /\ phase'[d] = phase[d] /\ prep'[d] = prep[d]

LEMMA LoneStep ==
  ASSUME TypeInv, NEW c \in Clients, NEW p, NEW x,
         \/ Answer(c)
         \/ Go(c, p) /\ (UNCHANGED prep \/ Keep(c, x))
  PROVE  Lone(c)
BY DEF Answer, Lone, TypeInv, TypeOK

\* A handler at work has a request.
LEMMA AtWork ==
  ASSUME TypeInv, NEW c \in Clients, phase[c] # "idle"
  PROVE  req[c] \in Requests /\ req[c] # None
BY NoneAssumption, RequestAssumption DEF TypeInv

LEMMA UserAtWork ==
  ASSUME TypeInv, NEW c \in Clients, phase[c] # "idle",
         req[c].op \in {"block", "unblock", "archive", "deactivate", "recover", "reset",
                        "reconcile", "changeEmail"}
  PROVE  req[c].user \in Users
<1>1. req[c] \in AccountRequests \cup ChangeRequests
  BY AtWork, RequestShape
<1>2. QED
  BY <1>1 DEF AccountRequests, ChangeRequests

\* The action a handler works on.
LEMMA ActionAtWork ==
  ASSUME TypeInv, NEW c \in Clients, phase[c] \in Talking
  PROVE  /\ prep[c] \in [action : Actions, email : Emails, ok : BOOLEAN]
         /\ prep[c].action \in Actions
         /\ actions[prep[c].action] \in Kind(c) /\ actions[prep[c].action] # None
BY NoneAssumption DEF TypeInv, PrepOK, Kind

\* An open change is a change.
LEMMA PendingKind ==
  ASSUME TypeInv, NEW u, NEW a \in PendingChanges(u)
  PROVE  actions[a] \in EmailChange /\ a \in Actions /\ actions[a].target = u
BY DEF PendingChanges, TypeInv, TypeOK, Reset, Pending

LEMMA RunningKind ==
  ASSUME TypeInv, NEW u, NEW a \in RunningResets(u)
  PROVE  actions[a] \in Reset /\ a \in Actions /\ actions[a].target = u
BY DEF RunningResets, TypeInv, TypeOK, EmailChange, Pending

LEMMA KindsApart == EmailChange \cap Reset = {}
BY DEF EmailChange, Reset

\* Two handlers that work on the e-mail of an account work on two accounts.
Busy(c) == Changing(c) \/ Repairing(c)
LEMMA Rivals ==
  ASSUME TypeInv, ChangeInv, NEW c \in Clients, NEW d \in Clients, c # d, Busy(c), Busy(d)
  PROVE  req[c].user # req[d].user
<1>1. /\ req[c] # None /\ req[d] # None
      /\ phase[c] \in Talking /\ phase[d] \in Talking
      /\ prep[c].action \in PendingChanges(req[c].user)
      /\ prep[d].action \in PendingChanges(req[d].user)
      /\ req[c].user \in Users
  BY AtWork, UserAtWork
  DEF Busy, Changing, Repairing, ChangeInv, HandlerOK, ChangeOK, RepairOK, Talking
<1>2. CASE Repairing(c) \/ Repairing(d)
  BY <1>1, <1>2 DEF ChangeInv, Alone, Busy, Changing, Repairing
<1>3. CASE Changing(c) /\ Changing(d)
  BY <1>1, <1>3 DEF ChangeInv, AccountOK, Apart, Opened
<1>4. QED
  BY <1>2, <1>3 DEF Busy

\* No two handlers work on one action.
LEMMA ActionsApart ==
  ASSUME TypeInv, ChangeInv, NEW c \in Clients, NEW d \in Clients, c # d,
         phase[c] \in Talking, phase[d] \in Talking
  PROVE  prep[c].action # prep[d].action
<1>1. (Busy(c) \/ Resetting(c)) /\ (Busy(d) \/ Resetting(d))
  BY DEF ChangeInv, HandlerOK, Busy
<1>2. CASE Opened(c) /\ Opened(d)
  BY <1>2 DEF ChangeInv, Apart
<1>3. CASE Busy(c) /\ Busy(d)
  <2>1. /\ prep[c].action \in PendingChanges(req[c].user)
        /\ prep[d].action \in PendingChanges(req[d].user)
    BY <1>3 DEF Busy, ChangeInv, HandlerOK, ChangeOK, RepairOK
  <2>2. QED
    BY <1>3, <2>1, Rivals, PendingKind
<1>4. ASSUME NEW e \in {c, d}, NEW f \in {c, d}, Repairing(e), Resetting(f)
      PROVE  prep[e].action # prep[f].action
  <2>1. actions[prep[e].action] \in EmailChange /\ actions[prep[f].action] \in Reset
    BY <1>4, ActionAtWork DEF Repairing, Resetting, Kind
  <2>2. QED
    BY <2>1, KindsApart
<1>5. QED
  BY <1>1, <1>2, <1>3, <1>4 DEF Busy, Opened

\* What a handler at work must be left with.
Undisturbed(d) ==
  /\ phase[d] \in Talking => actions'[prep[d].action] = actions[prep[d].action]
  /\ \A u : u = req[d].user =>
       /\ Busy(d) => authEmail'[u] = authEmail[u]
       /\ Busy(d) \/ (Resetting(d) /\ phase[d] = "calling") => users'[u].email = users[u].email
       /\ Resetting(d) /\ phase[d] = "calling" => PendingChanges(u)' = {}

LEMMA UndisturbedHolds ==
  ASSUME TypeInv, ChangeInv, NEW d \in Clients, Undisturbed(d),
         req'[d] = req[d], phase'[d] = phase[d], prep'[d] = prep[d]
  PROVE  HandlerOK(d)'
<1> DEFINE u == req[d].user
           a == prep[d].action
<1>1. CASE phase[d] \notin Talking
  BY <1>1 DEF HandlerOK, ChangeOK, RepairOK, ResetOK, Changing, Repairing, Resetting, Talking
<1>2. CASE phase[d] \in Talking
  <2>1. a \in Actions /\ actions'[a] = actions[a]
    BY <1>2, ActionAtWork DEF Undisturbed
  <2>2. /\ (a \in PendingChanges(u))' <=> a \in PendingChanges(u)
        /\ (a \in RunningResets(u))' <=> a \in RunningResets(u)
    BY <2>1 DEF PendingChanges, RunningResets
  <2>3. HandlerOK(d)
    BY DEF ChangeInv
  <2>4. (Changing(d)' <=> Changing(d)) /\ (Repairing(d)' <=> Repairing(d))
        /\ (Resetting(d)' <=> Resetting(d))
    BY DEF Changing, Repairing, Resetting
  <2>5. ChangeOK(d)'
    <3>1. CASE Changing(d)
      <4>1. authEmail'[u] = authEmail[u] /\ users'[u].email = users[u].email
        BY <3>1 DEF Undisturbed, Busy
      <4>2. ChangeOK(d)
        BY <2>3 DEF HandlerOK
      <4>3. QED
        BY <2>2, <3>1, <4>1, <4>2 DEF ChangeOK
    <3>2. QED
      BY <2>4, <3>1 DEF ChangeOK
  <2>6. RepairOK(d)'
    BY <2>1, <2>2, <2>3, <2>4 DEF HandlerOK, RepairOK, Undisturbed, Busy
  <2>7. ResetOK(d)'
    BY <2>2, <2>3, <2>4 DEF HandlerOK, ResetOK, Undisturbed, Busy
  <2>8. QED
    BY <1>2, <2>3, <2>4, <2>5, <2>6, <2>7 DEF HandlerOK
<1>3. QED
  BY <1>1, <1>2

\* An account whose open changes and e-mails a step leaves alone.
LEMMA AccountStays ==
  ASSUME TypeInv, NEW u \in Users, AccountOK(u), PendingChanges(u)' = PendingChanges(u),
         \A a \in PendingChanges(u) : actions'[a].old = actions[a].old,
         users'[u].email = users[u].email, authEmail'[u] = authEmail[u]
  PROVE  AccountOK(u)'
BY DEF AccountOK

\* A request that ends, or goes on, leaves a repair alone.
LEMMA AloneStays ==
  ASSUME TypeInv, Alone, NEW c \in Clients, Answer(c) \/ UNCHANGED req
  PROVE  Alone'
<1>1. \A d \in Clients : req'[d] \in {req[d], None}
  BY AnswerQuiet
<1>2. QED
  BY <1>1 DEF Alone

\* A handler that opens nothing keeps the openers apart.
LEMMA ApartStays ==
  ASSUME TypeInv, Apart, NEW c \in Clients, Lone(c),
         Opened(c)' => \A d \in Clients \ {c} : Opened(d) => prep'[c].action # prep[d].action
  PROVE  Apart'
<1>1. \A d \in Clients \ {c} : (Opened(d)' <=> Opened(d)) /\ prep'[d] = prep[d]
  BY DEF Lone, Opened, Changing, Resetting
<1>2. SUFFICES ASSUME NEW d \in Clients, NEW e \in Clients, d # e, Opened(d)', Opened(e)'
               PROVE  prep'[d].action # prep'[e].action
  BY DEF Apart
<1>3. CASE d # c /\ e # c
  BY <1>1, <1>2, <1>3 DEF Apart
<1>4. CASE d = c \/ e = c
  BY <1>1, <1>2, <1>4
<1>5. QED
  BY <1>3, <1>4

\* A step of c keeps ChangeInv when it leaves the others undisturbed.
LEMMA ChangeStep ==
  ASSUME TypeInv, ChangeInv, NEW c \in Clients, Lone(c), Answer(c) \/ UNCHANGED req,
         Opened(c)' => \A d \in Clients \ {c} : Opened(d) => prep'[c].action # prep[d].action,
         \A d \in Clients \ {c} : Undisturbed(d),
         HandlerOK(c)', \A u \in Users : AccountOK(u)'
  PROVE  ChangeInv'
<1>1. Alone' /\ Apart'
  BY AloneStays, ApartStays DEF ChangeInv
<1>2. \A d \in Clients \ {c} : HandlerOK(d)'
  BY UndisturbedHolds DEF Lone
<1>3. QED
  BY <1>1, <1>2 DEF ChangeInv

LEMMA FreeOK ==
  ASSUME NEW c \in Clients, phase'[c] \notin Talking
  PROVE  HandlerOK(c)' /\ ~ Opened(c)'
BY DEF HandlerOK, ChangeOK, RepairOK, ResetOK, Opened, Changing, Repairing, Resetting, Talking

\* A step that leaves actions and e-mails alone.
LEMMA StillStep ==
  ASSUME TypeInv, ChangeInv, NEW c \in Clients, Lone(c), Answer(c) \/ UNCHANGED req,
         UNCHANGED <<actions, authEmail>>, \A u \in Users : users'[u].email = users[u].email,
         HandlerOK(c)', Opened(c)' => Opened(c) /\ prep'[c].action = prep[c].action
  PROVE  ChangeInv'
<1>1. \A u : PendingChanges(u)' = PendingChanges(u)
  BY DEF PendingChanges
<1>2. \A u \in Users : AccountOK(u)'
  BY <1>1, AccountStays DEF ChangeInv
<1>3. ASSUME NEW d \in Clients \ {c} PROVE Undisturbed(d)
  <2> PICK u : u = req[d].user
    OBVIOUS
  <2>1. Busy(d) \/ Resetting(d) => u \in Users
    BY UserAtWork DEF Busy, Changing, Repairing, Resetting
  <2>2. Resetting(d) /\ phase[d] = "calling" => PendingChanges(u) = {}
    BY DEF ChangeInv, HandlerOK, ResetOK
  <2>3. Busy(d) \/ Resetting(d) => users'[u].email = users[u].email
    BY <2>1
  <2>4. QED
    BY <1>1, <2>2, <2>3 DEF Undisturbed
<1>4. Opened(c)' => \A d \in Clients \ {c} : Opened(d) => prep'[c].action # prep[d].action
  BY DEF ChangeInv, Apart
<1>5. QED
  BY <1>2, <1>3, <1>4, ChangeStep

LEMMA EndedStep ==
  ASSUME TypeInv, ChangeInv, NEW c \in Clients, NEW p, p \notin Talking,
         Answer(c) \/ (Go(c, p) /\ UNCHANGED prep),
         UNCHANGED <<actions, authEmail>>, \A u \in Users : users'[u].email = users[u].email
  PROVE  ChangeInv'
<1>1. Lone(c) /\ (Answer(c) \/ UNCHANGED req)
  BY LoneStep
<1>2. phase'[c] \notin Talking
  BY DEF Answer, TypeInv, Talking
<1>3. QED
  BY <1>1, <1>2, FreeOK, StillStep

\* The same, for a step that answers.
LEMMA AnsweredStep ==
  ASSUME TypeInv, ChangeInv, NEW c \in Clients, Answer(c),
         UNCHANGED <<actions, authEmail>>, \A u \in Users : users'[u].email = users[u].email
  PROVE  ChangeInv'
<1>1. "idle" \notin Talking
  BY DEF Talking
<1>2. QED
  BY <1>1, EndedStep

LEMMA SessionStepChange ==
  ASSUME TypeInv, ChangeInv, NEW c \in Clients, SessionStep(c) \/ StatusStep(c) \/ Fail(c)
  PROVE  ChangeInv'
<1>1. \A u \in Users : users'[u].email = users[u].email
  <2>1. CASE UNCHANGED users
    BY <2>1
  <2>2. ASSUME NEW u \in Users, NEW b,
               \/ users' = [users EXCEPT ![u].active = b]
               \/ users' = [users EXCEPT ![u].active = b, ![u].archived = TRUE]
        PROVE  \A v \in Users : users'[v].email = users[v].email
    BY <2>2 DEF TypeInv, TypeOK, User
  <2>3. CASE StatusStep(c)
    <3>1. phase[c] # "idle" /\ req[c].op \in {"block", "unblock", "archive", "deactivate"}
      BY <2>3 DEF StatusStep, SetActive, Archive, Deactivate
    <3>2. req[c].user \in Users
      BY <3>1, UserAtWork
    <3>3. QED
      BY <2>1, <2>2, <2>3, <3>2 DEF StatusStep, SetActive, Archive, Deactivate, Rejected
  <2>4. QED
    BY <2>1, <2>3
    DEF SessionStep, SignIn, Register, ReadUser, ReadSession, ReadPending, Check, Respond,
        Logout, CheckRecovery, RevokeSessions, Fail, Rejected
<1>2. CASE Answer(c)
  <2>1. UNCHANGED <<actions, authEmail>>
    BY <1>2
    DEF SessionStep, SignIn, Register, ReadUser, ReadSession, ReadPending, Check, Respond,
        Logout, CheckRecovery, RevokeSessions, Fail, Rejected,
        StatusStep, SetActive, Archive, Deactivate
  <2>2. QED
    BY <1>1, <1>2, <2>1, AnsweredStep
<1>3. CASE ~ Answer(c)
  <2>1. \E p : p \notin Talking /\ Go(c, p) /\ UNCHANGED <<prep, tables>>
    BY <1>3
    DEF SessionStep, SignIn, Register, ReadUser, ReadSession, ReadPending, Check, Respond,
        Logout, CheckRecovery, RevokeSessions, Fail, Rejected,
        StatusStep, SetActive, Archive, Deactivate, Talking
  <2>2. QED
    BY <1>1, <2>1, EndedStep
<1>4. QED
  BY <1>2, <1>3

LEMMA SendResetChange ==
  ASSUME TypeInv, ChangeInv, NEW c \in Clients, SendReset(c)
  PROVE  ChangeInv'
<1>1. /\ phase[c] = "calling" /\ req[c].op = "reset" /\ Go(c, "answered") /\ UNCHANGED tables
      /\ phase'[c] = "answered" /\ req'[c] = req[c]
  BY DEF SendReset, TypeInv
<1>2. PICK ok \in BOOLEAN : Keep(c, [prep[c] EXCEPT !.ok = ok])
  BY DEF SendReset
<1>3. prep[c] \in [action : Actions, email : Emails, ok : BOOLEAN]
  BY <1>1, ActionAtWork DEF Talking
<1>4. prep'[c].action = prep[c].action
  BY <1>2, <1>3 DEF TypeInv
<1>5. Lone(c)
  BY <1>1, <1>2, LoneStep
<1>6. HandlerOK(c)' /\ Opened(c)
  BY <1>1 DEF HandlerOK, ChangeOK, RepairOK, ResetOK, Changing, Repairing, Resetting, Opened
<1>7. QED
  BY <1>1, <1>4, <1>5, <1>6, StillStep

LEMMA ReadChange ==
  ASSUME TypeInv, ChangeInv, NEW c \in Clients, ReadAction(c) \/ AskAuth(c), ~ Answer(c)
  PROVE  ChangeInv'
<1> DEFINE u == req[c].user
<1>1. /\ req[c].op = "reconcile" /\ UNCHANGED <<req, tables>>
      /\ \/ /\ phase[c] = "received" /\ phase' = [phase EXCEPT ![c] = "asking"]
            /\ \E a \in PendingChanges(u) :
                 Keep(c, [action |-> a, email |-> actions[a].new, ok |-> TRUE])
         \/ /\ phase[c] = "asking" /\ UNCHANGED prep
            /\ \/ /\ phase' = [phase EXCEPT ![c] = "finishing"]
                  /\ authEmail[u] = prep[c].email
               \/ /\ phase' = [phase EXCEPT ![c] = "failing"]
                  /\ authEmail[u] = actions[prep[c].action].old
  BY DEF ReadAction, AskAuth, Rejected
<1>2. /\ Lone(c) /\ req'[c] = req[c]
      /\ \/ phase'[c] = "asking"
         \/ phase'[c] = "finishing" /\ authEmail[u] = prep'[c].email
         \/ phase'[c] = "failing" /\ authEmail[u] = actions[prep'[c].action].old
  BY <1>1 DEF Lone, TypeInv
<1>3. prep'[c].action \in PendingChanges(u)
  <2>1. CASE phase[c] = "received"
    BY <1>1, <2>1 DEF TypeInv
  <2>2. CASE phase[c] = "asking"
    BY <1>1, <2>2 DEF ChangeInv, HandlerOK, RepairOK, Repairing
  <2>3. QED
    BY <1>1, <2>1, <2>2
<1>4. PendingChanges(u)' = PendingChanges(u)
  BY <1>1 DEF PendingChanges
<1>5. HandlerOK(c)' /\ ~ Opened(c)'
  BY <1>1, <1>2, <1>3, <1>4
  DEF HandlerOK, ChangeOK, RepairOK, ResetOK, Opened, Changing, Repairing, Resetting
<1>6. QED
  BY <1>1, <1>2, <1>5, StillStep

\* Where a status is written: the row keeps its kind, its target and its old e-mail.
LEMMA MarkedRow ==
  ASSUME TypeInv, NEW a \in Actions, actions[a] # None, NEW st, SetStatus(a, st),
         actions'[a] # None
  PROVE  /\ \A b \in Actions : b # a => actions'[b] = actions[b]
         /\ actions'[a].target = actions[a].target
         /\ actions[a] \in EmailChange => actions'[a].old = actions[a].old
         /\ \A v : PendingChanges(v)' = IF actions[a].target = v /\ st \in Pending
                                        THEN PendingChanges(v) \cup {a}
                                        ELSE PendingChanges(v) \ {a}
<1>1. actions[a] \in EmailChange \cup Reset
  BY DEF TypeInv, TypeOK
<1>2. /\ \A b \in Actions : b # a => actions'[b] = actions[b]
      /\ actions'[a] = [actions[a] EXCEPT !.status = st]
  BY DEF SetStatus, TypeInv, TypeOK
<1>3. /\ actions'[a].target = actions[a].target
      /\ actions'[a].status = st
      /\ actions[a] \in EmailChange => actions'[a].old = actions[a].old
  BY <1>1, <1>2 DEF EmailChange, Reset
<1>4. ASSUME NEW v, NEW b \in Actions
      PROVE  (b \in PendingChanges(v))' <=> b \in IF actions[a].target = v /\ st \in Pending
                                                  THEN PendingChanges(v) \cup {a}
                                                  ELSE PendingChanges(v) \ {a}
  <2>1. CASE b = a
    BY <1>3, <2>1 DEF PendingChanges
  <2>2. CASE b # a
    BY <1>2, <2>2 DEF PendingChanges
  <2>3. QED
    BY <2>1, <2>2
<1>5. \A v : PendingChanges(v) \subseteq Actions /\ PendingChanges(v)' \subseteq Actions
  BY DEF PendingChanges
<1>6. ASSUME NEW v
      PROVE  PendingChanges(v)' = IF actions[a].target = v /\ st \in Pending
                                  THEN PendingChanges(v) \cup {a}
                                  ELSE PendingChanges(v) \ {a}
  BY <1>4, <1>5
<1>7. QED
  BY <1>2, <1>3, <1>6

\* A handler at work writes the status of its own action.
LEMMA MarkStep ==
  ASSUME TypeInv, ChangeInv, KindsKept, NEW c \in Clients, phase[c] \in Talking,
         NEW st, SetStatus(prep[c].action, st), st \in Pending => Busy(c),
         Lone(c), Answer(c) \/ UNCHANGED req, UNCHANGED authEmail,
         \A v \in Users : users'[v].email = users[v].email \/ (Busy(c) /\ v = req[c].user),
         \A v \in Users : Busy(c) /\ v = req[c].user => AccountOK(v)',
         HandlerOK(c)', Opened(c)' => Opened(c) /\ prep'[c].action = prep[c].action
  PROVE  ChangeInv'
<1> DEFINE u == req[c].user
           a == prep[c].action
<1>1. /\ a \in Actions /\ actions[a] # None /\ actions'[a] # None
      /\ Busy(c) \/ Resetting(c)
      /\ Busy(c) => u \in Users /\ a \in PendingChanges(u) /\ actions[a].target = u
      /\ ~ Busy(c) => actions[a] \in Reset
  <2>1. a \in Actions /\ actions[a] \in Kind(c)
    BY ActionAtWork
  <2>2. actions[a] # None /\ actions'[a] # None
    BY <2>1, NoneAssumption DEF KindsKept, Kind
  <2>3. Busy(c) \/ Resetting(c)
    BY DEF ChangeInv, HandlerOK, Busy
  <2>4. Busy(c) => u \in Users
    BY UserAtWork DEF Busy, Changing, Repairing
  <2>5. Busy(c) => a \in PendingChanges(u)
    BY DEF ChangeInv, HandlerOK, ChangeOK, RepairOK, Busy
  <2>6. QED
    BY <2>1, <2>2, <2>3, <2>4, <2>5, PendingKind DEF Kind, Resetting
<1>2. /\ \A b \in Actions : b # a => actions'[b] = actions[b]
      /\ actions[a] \in EmailChange => actions'[a].old = actions[a].old
      /\ \A v : PendingChanges(v)' \subseteq PendingChanges(v) \cup {a}
      /\ \A v : v # actions[a].target => PendingChanges(v)' = PendingChanges(v) \ {a}
      /\ st \notin Pending => \A v : PendingChanges(v)' = PendingChanges(v) \ {a}
  BY <1>1, MarkedRow
<1>3. ASSUME NEW v, v # u \/ ~ Busy(c) PROVE PendingChanges(v)' = PendingChanges(v)
  <2>1. a \notin PendingChanges(v)
    BY <1>1, <1>3, PendingKind, KindsApart
  <2>2. PendingChanges(v)' = PendingChanges(v) \ {a}
    BY <1>1, <1>2, <1>3
  <2>3. QED
    BY <2>1, <2>2
<1>4. ASSUME NEW d \in Clients \ {c} PROVE Undisturbed(d)
  <2> PICK v : v = req[d].user
    OBVIOUS
  <2>1. phase[d] \in Talking => actions'[prep[d].action] = actions[prep[d].action]
    BY <1>2, ActionsApart, ActionAtWork
  <2>2. Busy(d) \/ (Resetting(d) /\ phase[d] = "calling") => v \in Users
    BY UserAtWork DEF Busy, Changing, Repairing, Resetting
  <2>3. Busy(d) /\ Busy(c) => v # u
    BY Rivals
  <2>4. Resetting(d) /\ phase[d] = "calling" => PendingChanges(v) = {}
    BY DEF ChangeInv, HandlerOK, ResetOK
  <2>5. Resetting(d) /\ phase[d] = "calling" /\ Busy(c) => v # u
    BY <1>1, <2>4
  <2>6. Busy(d) \/ (Resetting(d) /\ phase[d] = "calling") => users'[v].email = users[v].email
    BY <2>2, <2>3, <2>5
  <2>7. Resetting(d) /\ phase[d] = "calling" => PendingChanges(v)' = {}
    BY <1>3, <2>4, <2>5
  <2>8. QED
    BY <2>1, <2>6, <2>7 DEF Undisturbed
<1>5. ASSUME NEW v \in Users PROVE AccountOK(v)'
  <2>1. CASE v = u /\ Busy(c)
    BY <2>1
  <2>2. CASE ~ (v = u /\ Busy(c))
    <3>1. PendingChanges(v)' = PendingChanges(v)
      BY <1>3, <2>2
    <3>2. \A b \in PendingChanges(v) : actions'[b].old = actions[b].old
      BY <1>2, PendingKind
    <3>3. QED
      BY <2>2, <3>1, <3>2, AccountStays DEF ChangeInv
  <2>3. QED
    BY <2>1, <2>2
<1>6. Opened(c)' => \A d \in Clients \ {c} : Opened(d) => prep'[c].action # prep[d].action
  BY DEF ChangeInv, Apart
<1>7. QED
  BY <1>4, <1>5, <1>6, ChangeStep

\* A handler that closes its action and answers; an account it has changed agrees with Auth.
LEMMA CloseStep ==
  ASSUME TypeInv, ChangeInv, KindsKept, NEW c \in Clients, phase[c] \in Talking,
         NEW st, SetStatus(prep[c].action, st), st \notin Pending, Answer(c),
         UNCHANGED authEmail,
         \A v \in Users : users'[v].email = users[v].email \/ (Busy(c) /\ v = req[c].user),
         \A v \in Users : Busy(c) /\ v = req[c].user => users'[v].email = authEmail[v]
  PROVE  ChangeInv'
<1>1. Lone(c) /\ phase'[c] = "idle"
  BY LoneStep DEF Answer, TypeInv
<1>2. HandlerOK(c)' /\ ~ Opened(c)'
  BY <1>1, FreeOK DEF Talking
<1>3. ASSUME NEW v \in Users, Busy(c), v = req[c].user PROVE AccountOK(v)'
  <2> DEFINE a == prep[c].action
  <2>1. a \in PendingChanges(v)
    BY <1>3 DEF ChangeInv, HandlerOK, ChangeOK, RepairOK, Busy
  <2>2. PendingChanges(v) = {a}
    BY <2>1 DEF ChangeInv, AccountOK
  <2>3. a \in Actions /\ actions[a] # None /\ actions'[a] # None
    BY <2>1, PendingKind, NoneAssumption DEF KindsKept
  <2>4. PendingChanges(v)' = {}
    BY <2>2, <2>3, MarkedRow
  <2>5. QED
    BY <1>3, <2>4 DEF AccountOK
<1>4. QED
  BY <1>1, <1>2, <1>3, MarkStep

LEMMA CloseResetChange ==
  ASSUME TypeInv, ChangeInv, NEW c \in Clients, CloseReset(c)
  PROVE  ChangeInv'
<1>1. /\ phase[c] = "answered" /\ req[c].op = "reset" /\ Answer(c)
      /\ UNCHANGED <<users, sessions, authEmail>>
  BY DEF CloseReset
<1>2. PICK st \in {"COMPLETED", "FAILED"} : SetStatus(prep[c].action, st)
  BY DEF CloseReset
<1>3. KindsKept
  <2>1. phase[c] \in Talking /\ prep[c].action \in Actions /\ actions[prep[c].action] \in Reset
    BY <1>1, ActionAtWork DEF Talking, Kind
  <2>2. QED
    BY <1>2, <2>1, ResetStatus
<1>4. ~ Busy(c) /\ phase[c] \in Talking /\ st \notin Pending
  BY <1>1 DEF Busy, Changing, Repairing, Talking, Pending
<1>5. QED
  BY <1>1, <1>2, <1>3, <1>4, CloseStep

\* The status of an e-mail change is written.
LEMMA ChangeKinds ==
  ASSUME TypeInv, NEW c \in Clients, phase[c] \in Talking, req[c].op # "reset",
         NEW st \in Pending \cup {"COMPLETED", "FAILED"}, SetStatus(prep[c].action, st)
  PROVE  KindsKept
BY Kept, ChangeStatus

LEMMA NoteAnswerChange ==
  ASSUME TypeInv, ChangeInv, NEW c \in Clients, NoteAnswer(c)
  PROVE  ChangeInv'
<1> DEFINE a == prep[c].action
           u == req[c].user
<1>1. /\ phase[c] = "answered" /\ req[c].op = "changeEmail" /\ phase[c] \in Talking
      /\ UNCHANGED <<users, sessions, authEmail>> /\ Changing(c) /\ Busy(c) /\ ChangeOK(c)
  BY DEF NoteAnswer, Talking, Changing, Busy, ChangeInv, HandlerOK
<1>2. CASE ~ prep[c].ok /\ SetStatus(a, "FAILED") /\ Answer(c)
  <2>1. KindsKept
    BY <1>1, <1>2, ChangeKinds
  <2>2. \A v \in Users : v = u => users'[v].email = authEmail[v]
    BY <1>1, <1>2 DEF ChangeOK
  <2>3. "FAILED" \notin Pending
    BY DEF Pending
  <2>4. QED
    BY <1>1, <1>2, <2>1, <2>2, <2>3, CloseStep
<1>3. CASE /\ prep[c].ok /\ SetStatus(a, "AUTH_UPDATED")
           /\ Go(c, "finishing") /\ UNCHANGED prep
  <2>1. KindsKept
    BY <1>1, <1>3, ChangeKinds DEF Pending
  <2>2. /\ Lone(c) /\ phase'[c] = "finishing" /\ req'[c] = req[c] /\ prep'[c] = prep[c]
    BY <1>3, LoneStep DEF TypeInv
  <2>3. /\ a \in PendingChanges(u) /\ authEmail[u] = prep[c].email
        /\ u \in Users
    BY <1>1, <1>3, UserAtWork DEF ChangeOK, Talking
  <2>4. PICK v \in Users : v = u
    BY <2>3
  <2>5. /\ a \in Actions /\ actions[a] # None /\ actions'[a] # None
        /\ actions[a] \in EmailChange /\ actions[a].target = v
    BY <2>1, <2>3, <2>4, PendingKind, NoneAssumption DEF KindsKept
  <2>6. /\ PendingChanges(v)' = PendingChanges(v)
        /\ \A b \in PendingChanges(v) : actions'[b].old = actions[b].old
    <3>1. "AUTH_UPDATED" \in Pending
      BY DEF Pending
    <3>2. PendingChanges(v)' = PendingChanges(v) \cup {a}
      BY <1>3, <2>5, <3>1, MarkedRow
    <3>3. \A b \in Actions : b = a \/ actions'[b] = actions[b]
      BY <1>3, <2>5, MarkedRow
    <3>4. actions'[a].old = actions[a].old
      BY <1>3, <2>5, MarkedRow
    <3>5. QED
      BY <2>3, <2>4, <3>2, <3>3, <3>4, PendingKind
  <2>7. AccountOK(v)'
    BY <1>1, <2>4, <2>6, AccountStays DEF ChangeInv
  <2>8. HandlerOK(c)'
    <3>1. prep'[c].action \in PendingChanges(v)' /\ v = req'[c].user
      BY <2>2, <2>3, <2>4, <2>6
    <3>2. ChangeOK(c)'
      BY <1>1, <1>3, <2>2, <2>3, <2>4, <3>1 DEF ChangeOK
    <3>3. Changing(c)' /\ ~ Repairing(c)' /\ ~ Resetting(c)'
      BY <1>1, <2>2 DEF Changing, Repairing, Resetting
    <3>4. QED
      BY <3>2, <3>3 DEF HandlerOK, RepairOK, ResetOK
  <2>9. Opened(c) /\ prep'[c].action = prep[c].action
    BY <1>1, <2>2 DEF Opened
  <2>10. QED
    BY <1>1, <1>3, <2>1, <2>2, <2>4, <2>7, <2>8, <2>9, MarkStep
<1>4. QED
  BY <1>2, <1>3 DEF NoteAnswer

LEMMA FinishFailsChange ==
  ASSUME TypeInv, ChangeInv, NEW c \in Clients, FinishFails(c)
  PROVE  ChangeInv'
<1> DEFINE a == prep[c].action
<1>1. /\ phase[c] = "finishing" /\ req[c].op = "changeEmail" /\ phase[c] \in Talking
      /\ SetStatus(a, "REPAIR_REQUIRED") /\ Answer(c)
      /\ UNCHANGED <<users, sessions, authEmail>> /\ Busy(c) /\ ChangeOK(c)
      /\ phase'[c] = "idle" /\ Changing(c)
  BY DEF FinishFails, Unfinished, Talking, Changing, Busy, ChangeInv, HandlerOK, Answer, TypeInv
<1>2. KindsKept /\ "REPAIR_REQUIRED" \in Pending
  BY <1>1, ChangeKinds DEF Pending
<1>3. Lone(c) /\ HandlerOK(c)' /\ ~ Opened(c)'
  BY <1>1, LoneStep, FreeOK DEF Talking
<1>4. ASSUME NEW v \in Users, v = req[c].user PROVE AccountOK(v)'
  <2>1. a \in PendingChanges(v)
    BY <1>1, <1>4 DEF ChangeOK
  <2>2. /\ a \in Actions /\ actions[a] # None /\ actions'[a] # None
        /\ actions[a] \in EmailChange /\ actions[a].target = v
    BY <1>2, <2>1, PendingKind, NoneAssumption DEF KindsKept
  <2>3. PendingChanges(v)' = PendingChanges(v) \cup {a}
    BY <1>1, <1>2, <2>2, MarkedRow
  <2>4. \A b \in Actions : b = a \/ actions'[b] = actions[b]
    BY <1>1, <2>2, MarkedRow
  <2>5. actions'[a].old = actions[a].old
    BY <1>1, <2>2, MarkedRow
  <2>6. QED
    BY <1>1, <2>1, <2>3, <2>4, <2>5, PendingKind, AccountStays DEF ChangeInv
<1>5. QED
  BY <1>1, <1>2, <1>3, <1>4, MarkStep

LEMMA MarkFailedChange ==
  ASSUME TypeInv, ChangeInv, NEW c \in Clients, MarkFailed(c)
  PROVE  ChangeInv'
<1> DEFINE a == prep[c].action
<1>1. /\ phase[c] = "failing" /\ req[c].op = "reconcile" /\ phase[c] \in Talking
      /\ SetStatus(a, "FAILED") /\ Answer(c)
      /\ UNCHANGED <<users, sessions, authEmail>> /\ Repairing(c) /\ Busy(c) /\ RepairOK(c)
  BY DEF MarkFailed, Talking, Repairing, Busy, ChangeInv, HandlerOK
<1>2. KindsKept /\ "FAILED" \notin Pending
  BY <1>1, ChangeKinds DEF Pending
<1>3. ASSUME NEW v \in Users, v = req[c].user PROVE users'[v].email = authEmail[v]
  <2>1. a \in PendingChanges(v) /\ authEmail[v] = actions[a].old
    BY <1>1, <1>3 DEF RepairOK
  <2>2. QED
    BY <1>1, <2>1 DEF ChangeInv, AccountOK
<1>4. QED
  BY <1>1, <1>2, <1>3, CloseStep

LEMMA FinishChangeChange ==
  ASSUME TypeInv, ChangeInv, NEW c \in Clients, FinishChange(c)
  PROVE  ChangeInv'
<1> DEFINE a == prep[c].action
           m == prep[c].email
<1>1. /\ phase[c] = "finishing" /\ phase[c] \in Talking /\ Answer(c)
      /\ users' = [users EXCEPT ![req[c].user].email = m]
      /\ SetStatus(a, "COMPLETED") /\ UNCHANGED authEmail
  BY DEF FinishChange, Talking
<1>2. Busy(c) /\ req[c].op # "reset" /\ "COMPLETED" \notin Pending
  BY <1>1 DEF ChangeInv, HandlerOK, Busy, Resetting, Changing, Repairing, Pending
<1>3. KindsKept
  BY <1>1, <1>2, ChangeKinds
<1>4. ASSUME NEW v \in Users, v = req[c].user PROVE users'[v].email = authEmail[v]
  <2>1. authEmail[v] = m
    BY <1>1, <1>2, <1>4 DEF ChangeInv, HandlerOK, ChangeOK, RepairOK, Busy
  <2>2. users'[v].email = m
    BY <1>1, <1>4 DEF TypeInv, TypeOK, User
  <2>3. QED
    BY <2>1, <2>2
<1>5. \A v \in Users : v # req[c].user => users'[v] = users[v]
  BY <1>1 DEF TypeInv, TypeOK
<1>6. \A v \in Users : users'[v].email = users[v].email \/ (Busy(c) /\ v = req[c].user)
  BY <1>2, <1>5
<1> HIDE DEF a, m
<1>7. QED
  BY <1>1, <1>2, <1>3, <1>4, <1>6, CloseStep DEF a

\* Opening a change or a reset for an account that is free for it.
LEMMA OpenStep ==
  ASSUME TypeInv, ChangeInv, NEW c \in Clients, phase[c] = "received",
         NEW u \in Users, u = req[c].user, Available(u), NEW row, Open(c, row), row.target = u,
         \/ /\ req[c].op = "changeEmail" /\ row \in EmailChange
            /\ row.status = "PENDING" /\ row.old = users[u].email
         \/ /\ req[c].op = "reset" /\ row \in Reset
            /\ row.status = "REQUESTING" /\ row.recent
  PROVE  ChangeInv'
<1>1. PICK a \in Actions :
        /\ actions[a] = None
        /\ actions' = [actions EXCEPT ![a] = row]
        /\ Keep(c, [action |-> a, email |-> users[req[c].user].email, ok |-> FALSE])
        /\ Go(c, "calling")
        /\ UNCHANGED <<users, sessions, authEmail>>
  BY DEF Open
<1>2. /\ Lone(c) /\ phase'[c] = "calling" /\ req'[c] = req[c]
      /\ prep'[c] = [action |-> a, email |-> users[u].email, ok |-> FALSE]
  BY <1>1, LoneStep DEF TypeInv
<1>3. /\ actions'[a] = row /\ row # None
      /\ \A b \in Actions : b # a => actions'[b] = actions[b]
  BY <1>1, NoneAssumption DEF TypeInv, TypeOK
<1>4. PendingChanges(u) = {} /\ RunningResets(u) = {} /\ users[u].email = authEmail[u]
  BY DEF Available, ChangeInv, AccountOK
<1>5. \A v : PendingChanges(v)' = IF v = u /\ row \in EmailChange THEN {a} ELSE PendingChanges(v)
  <2>1. row.status \in Pending <=> row \in EmailChange
    BY KindsApart DEF Pending
  <2>2. ASSUME NEW v
        PROVE  PendingChanges(v)' = IF v = u /\ row \in EmailChange
                                    THEN PendingChanges(v) \cup {a} ELSE PendingChanges(v)
    BY <1>1, <1>3, <2>1 DEF PendingChanges
  <2>3. QED
    BY <1>4, <2>2
<1>6. ASSUME NEW d \in Clients \ {c} PROVE Undisturbed(d)
  <2> PICK v : v = req[d].user
    OBVIOUS
  <2>1. phase[d] \in Talking => actions'[prep[d].action] = actions[prep[d].action]
    BY <1>1, <1>3, ActionAtWork
  <2>2. ASSUME Resetting(d), phase[d] = "calling" PROVE PendingChanges(v)' = {}
    <3>1. prep[d].action \in RunningResets(v) /\ PendingChanges(v) = {}
      BY <2>2 DEF ChangeInv, HandlerOK, ResetOK
    <3>2. QED
      BY <1>4, <1>5, <3>1
  <2>3. QED
    BY <1>1, <2>1, <2>2 DEF Undisturbed
<1>7. ASSUME NEW v \in Users PROVE AccountOK(v)'
  <2>1. CASE v = u /\ row \in EmailChange
    <3>1. PendingChanges(v)' = {a} /\ actions'[a].old = users'[v].email
      BY <1>1, <1>3, <1>5, <2>1, KindsApart
    <3>2. QED
      BY <3>1 DEF AccountOK
  <2>2. CASE ~ (v = u /\ row \in EmailChange)
    <3>1. PendingChanges(v)' = PendingChanges(v)
      BY <1>5, <2>2
    <3>2. \A b \in PendingChanges(v) : actions'[b].old = actions[b].old
      BY <1>1, <1>3, PendingKind, NoneAssumption
    <3>3. QED
      BY <1>1, <3>1, <3>2, AccountStays DEF ChangeInv
  <2>3. QED
    BY <2>1, <2>2
<1>8. HandlerOK(c)'
  <2>1. CASE req[c].op = "changeEmail" /\ row \in EmailChange
    <3>1. Changing(c)' /\ ~ Repairing(c)' /\ ~ Resetting(c)'
      BY <1>2, <2>1 DEF Changing, Repairing, Resetting
    <3>2. prep'[c].action \in PendingChanges(u)'
      BY <1>2, <1>5, <2>1
    <3>3. ChangeOK(c)'
      BY <1>1, <1>2, <1>4, <3>2 DEF ChangeOK
    <3>4. QED
      BY <3>1, <3>3 DEF HandlerOK, RepairOK, ResetOK
  <2>2. CASE req[c].op = "reset" /\ row \in Reset /\ row.status = "REQUESTING" /\ row.recent
    <3>1. ~ Changing(c)' /\ ~ Repairing(c)' /\ Resetting(c)'
      BY <1>2, <2>2 DEF Changing, Repairing, Resetting
    <3>2. PendingChanges(u)' = {}
      BY <1>4, <1>5, <2>2, KindsApart
    <3>3. prep'[c].action \in RunningResets(u)'
      BY <1>2, <1>3, <2>2 DEF RunningResets
    <3>4. ResetOK(c)'
      BY <1>1, <1>2, <3>2, <3>3 DEF ResetOK
    <3>5. QED
      BY <3>1, <3>4 DEF HandlerOK, ChangeOK, RepairOK
  <2>3. QED
    BY <2>1, <2>2
<1>9. \A d \in Clients \ {c} : Opened(d) => prep'[c].action # prep[d].action
  <2>1. \A d \in Clients : Opened(d) => phase[d] \in Talking
    BY DEF Opened, Changing, Resetting, Talking
  <2>2. QED
    BY <1>1, <1>2, <2>1, ActionAtWork
<1>10. QED
  BY <1>1, <1>2, <1>6, <1>7, <1>8, <1>9, ChangeStep

LEMMA BeginsChange ==
  ASSUME TypeInv, ChangeInv, NEW c \in Clients, BeginReset(c) \/ BeginChange(c), ~ Rejected(c)
  PROVE  ChangeInv'
<1>1. phase[c] = "received" /\ req[c].op \in {"reset", "changeEmail"}
  BY DEF BeginReset, BeginChange
<1>2. PICK u \in Users : u = req[c].user
  BY <1>1, UserAtWork
<1>3. CASE BeginReset(c)
  <2> DEFINE row == [kind |-> "PASSWORD_RESET_REQUEST", target |-> req[c].user, recent |-> TRUE,
                     status |-> "REQUESTING"]
  <2>1. Available(u) /\ Open(c, row) /\ req[c].op = "reset"
    BY <1>2, <1>3 DEF BeginReset
  <2>2. row \in Reset /\ row.target = u /\ row.status = "REQUESTING" /\ row.recent
    BY <1>2 DEF Reset
  <2> HIDE DEF row
  <2>3. QED
    BY <1>1, <1>2, <2>1, <2>2, OpenStep
<1>4. CASE BeginChange(c)
  <2>1. Available(u) /\ Open(c, ChangeRow(req[c])) /\ req[c].op = "changeEmail"
    BY <1>2, <1>4 DEF BeginChange
  <2>2. req[c] \in ChangeRequests
    BY <1>1, <2>1, AtWork, RequestShape
  <2>3. /\ ChangeRow(req[c]) \in EmailChange /\ ChangeRow(req[c]).target = u
        /\ ChangeRow(req[c]).status = "PENDING" /\ ChangeRow(req[c]).old = users[u].email
    BY <1>2, <2>2 DEF ChangeRow, EmailChange, ChangeRequests, Pending, TypeInv, TypeOK, User
  <2>4. QED
    BY <1>1, <1>2, <2>1, <2>3, OpenStep
<1>5. QED
  BY <1>3, <1>4

\* With no lost answer, Auth has the new e-mail exactly when the handler is told so.
LEMMA CallAuthChange ==
  ASSUME TypeInv, ChangeInv, ~ LossyAuth, NEW c \in Clients, CallAuth(c)
  PROVE  ChangeInv'
<1> DEFINE a == prep[c].action
<1>1. /\ phase[c] = "calling" /\ req[c].op = "changeEmail" /\ phase[c] \in Talking
      /\ UNCHANGED <<users, sessions, actions>> /\ Go(c, "answered")
      /\ Changing(c) /\ Busy(c) /\ ChangeOK(c)
      /\ phase'[c] = "answered" /\ req'[c] = req[c]
  BY DEF CallAuth, Talking, Changing, Busy, ChangeInv, HandlerOK, TypeInv
<1>2. PICK u \in Users : u = req[c].user
  BY <1>1, UserAtWork
<1>3. prep[c] \in [action : Actions, email : Emails, ok : BOOLEAN]
  BY <1>1, ActionAtWork
<1>4. /\ \A v \in Users : v # u => authEmail'[v] = authEmail[v]
      /\ Lone(c) /\ prep'[c].action = a
      /\ authEmail'[u] = IF prep'[c].ok THEN prep'[c].email ELSE users[u].email
  <2>1. CASE UNCHANGED <<authEmail, prep>>
    <3>1. ~ prep[c].ok /\ authEmail[u] = users[u].email
      BY <1>1, <1>2 DEF ChangeOK
    <3>2. Lone(c)
      BY <1>1, <2>1, LoneStep
    <3>3. QED
      BY <2>1, <3>1, <3>2
  <2>2. CASE /\ authEmail' = [authEmail EXCEPT ![u] = req[c].email]
             /\ Keep(c, [prep[c] EXCEPT !.email = req[c].email, !.ok = TRUE])
    <3>1. prep'[c].action = a /\ prep'[c].ok = TRUE /\ prep'[c].email = req[c].email
      BY <1>3, <2>2 DEF TypeInv
    <3>2. Lone(c)
      BY <1>1, <2>2, LoneStep
    <3>3. /\ authEmail'[u] = req[c].email
          /\ \A v \in Users : v # u => authEmail'[v] = authEmail[v]
      BY <2>2 DEF TypeInv, TypeOK
    <3>4. QED
      BY <3>1, <3>2, <3>3
  <2>3. ~ LossyAuth = TRUE
    BY SwitchAssumption
  <2>4. QED
    BY <1>2, <2>1, <2>2, <2>3 DEF CallAuth
<1>5. \A v : PendingChanges(v)' = PendingChanges(v)
  BY <1>1 DEF PendingChanges
<1>6. ASSUME NEW d \in Clients \ {c} PROVE Undisturbed(d)
  <2> PICK v : v = req[d].user
    OBVIOUS
  <2>1. Busy(d) => v \in Users /\ v # u
    BY <1>1, <1>2, UserAtWork, Rivals DEF Busy, Changing, Repairing
  <2>2. Resetting(d) /\ phase[d] = "calling" => PendingChanges(v) = {}
    BY DEF ChangeInv, HandlerOK, ResetOK
  <2>3. QED
    BY <1>1, <1>4, <1>5, <2>1, <2>2 DEF Undisturbed
<1>7. ASSUME NEW v \in Users PROVE AccountOK(v)'
  <2>1. CASE v # u
    BY <1>1, <1>4, <1>5, <2>1, AccountStays DEF ChangeInv
  <2>2. CASE v = u
    <3>1. a \in PendingChanges(v)
      BY <1>1, <1>2, <2>2 DEF ChangeOK
    <3>2. QED
      BY <1>1, <1>5, <3>1 DEF AccountOK, ChangeInv
  <2>3. QED
    BY <2>1, <2>2
<1>8. HandlerOK(c)'
  <2>1. a \in PendingChanges(u)'
    BY <1>1, <1>2, <1>5 DEF ChangeOK
  <2>2. ChangeOK(c)'
    BY <1>1, <1>2, <1>4, <2>1 DEF ChangeOK
  <2>3. Changing(c)' /\ ~ Repairing(c)' /\ ~ Resetting(c)'
    BY <1>1 DEF Changing, Repairing, Resetting
  <2>4. QED
    BY <2>2, <2>3 DEF HandlerOK, RepairOK, ResetOK
<1>9. \A d \in Clients \ {c} : Opened(d) => prep'[c].action # prep[d].action
  BY <1>1, <1>4 DEF ChangeInv, Apart, Opened
<1>10. QED
  BY <1>1, <1>4, <1>6, <1>7, <1>8, <1>9, ChangeStep

\* Nothing that ChangeInv speaks of moves, except that c may take a request.
LEMMA SubmitChange ==
  ASSUME TypeInv, ChangeInv, CarefulRepair, NEW c \in Clients, NEW q \in Requests, Submit(c, q)
  PROVE  ChangeInv'
<1>1. /\ req'[c] = q /\ phase'[c] = "received"
      /\ UNCHANGED <<prep, tables>> /\ Lone(c)
  BY DEF Submit, Lone, TypeInv, TypeOK
<1>2. Alone'
  <2>1. ASSUME NEW d \in Clients, d # c, req[d] # None
        PROVE  /\ q.op = "reconcile" /\ req[d].op \in {"changeEmail", "reconcile"}
                    => q.user # req[d].user
               /\ q.op = "changeEmail" /\ req[d].op = "reconcile" => q.user # req[d].user
    BY <2>1 DEF Submit, Possible, Handling
  <2>2. ASSUME NEW d \in Clients, NEW e \in Clients, d # e, req'[d] # None, req'[e] # None,
               req'[d].op = "reconcile", req'[e].op \in {"changeEmail", "reconcile"}
        PROVE  req'[d].user # req'[e].user
    <3>1. CASE d = c
      BY <1>1, <2>1, <2>2, <3>1 DEF Lone
    <3>2. CASE e = c
      BY <1>1, <2>1, <2>2, <3>2 DEF Lone
    <3>3. CASE d # c /\ e # c
      BY <1>1, <2>2, <3>3 DEF Lone, ChangeInv, Alone
    <3>4. QED
      BY <3>1, <3>2, <3>3
  <2>3. QED
    BY <2>2 DEF Alone
<1>3. HandlerOK(c)' /\ ~ Opened(c)'
  BY <1>1, FreeOK DEF Talking
<1>4. Apart'
  BY <1>1, <1>3, ApartStays DEF ChangeInv
<1>5. \A u : PendingChanges(u)' = PendingChanges(u)
  BY <1>1 DEF PendingChanges
<1>6. \A u \in Users : AccountOK(u)'
  BY <1>1, <1>5, AccountStays DEF ChangeInv
<1>7. ASSUME NEW d \in Clients \ {c} PROVE HandlerOK(d)'
  <2> PICK v : v = req[d].user
    OBVIOUS
  <2>1. Resetting(d) /\ phase[d] = "calling" => PendingChanges(v) = {}
    BY DEF ChangeInv, HandlerOK, ResetOK
  <2>2. Undisturbed(d)
    BY <1>1, <1>5, <2>1 DEF Undisturbed
  <2>3. QED
    BY <1>1, <2>2, UndisturbedHolds DEF Lone
<1>8. QED
  BY <1>2, <1>3, <1>4, <1>6, <1>7 DEF ChangeInv

LEMMA ExpireChange ==
  ASSUME TypeInv, ChangeInv, NEW a \in Actions, Expire(a)
  PROVE  ChangeInv'
<1>1. /\ actions[a] \in Reset /\ UNCHANGED <<users, authEmail, req, phase, prep>>
      /\ actions' = [actions EXCEPT ![a].recent = FALSE]
      /\ \A c \in Clients : prep[c] # None => prep[c].action # a
  BY RunningKind DEF Expire
<1>2. /\ \A b \in Actions : b # a => actions'[b] = actions[b]
      /\ actions'[a] = [actions[a] EXCEPT !.recent = FALSE]
  BY <1>1 DEF TypeInv, TypeOK
<1>3. actions'[a].status = actions[a].status /\ actions[a].status \notin Pending
  BY <1>1, <1>2 DEF Reset, Pending
<1>4. \A u : PendingChanges(u)' = PendingChanges(u)
  BY <1>2, <1>3 DEF PendingChanges
<1>5. \A u : \A b \in PendingChanges(u) : actions'[b].old = actions[b].old
  BY <1>1, <1>2, PendingKind, KindsApart
<1>6. \A u \in Users : AccountOK(u)'
  BY <1>1, <1>4, <1>5, AccountStays DEF ChangeInv
<1>7. ASSUME NEW d \in Clients PROVE HandlerOK(d)'
  <2> PICK v : v = req[d].user
    OBVIOUS
  <2>1. Resetting(d) /\ phase[d] = "calling" => PendingChanges(v) = {}
    BY DEF ChangeInv, HandlerOK, ResetOK
  <2>2. phase[d] \in Talking => actions'[prep[d].action] = actions[prep[d].action]
    <3>1. phase[d] \in Talking => prep[d] # None /\ prep[d].action \in Actions
      BY ActionAtWork, NoneAssumption
    <3>2. QED
      BY <1>1, <1>2, <3>1
  <2>3. Undisturbed(d)
    BY <1>1, <1>4, <2>1, <2>2 DEF Undisturbed
  <2>4. QED
    BY <1>1, <2>3, UndisturbedHolds
<1>8. Alone' /\ Apart'
  BY <1>1 DEF ChangeInv, Alone, Apart, Opened, Changing, Resetting
<1>9. QED
  BY <1>6, <1>7, <1>8 DEF ChangeInv

LEMMA NextChange ==
  ASSUME TypeInv, ChangeInv, ~ LossyAuth, CarefulRepair, [Next]_vars
  PROVE  ChangeInv'
<1>1. CASE UNCHANGED vars
  BY <1>1 DEF vars, ChangeInv, Alone, Apart, Opened, HandlerOK, ChangeOK, RepairOK, ResetOK,
              Changing, Repairing, Resetting, AccountOK, PendingChanges, RunningResets
<1>2. CASE \E a \in Actions : Expire(a)
  BY <1>2, ExpireChange
<1>3. ASSUME NEW c \in Clients,
             (\E q \in Requests : Submit(c, q)) \/ SessionStep(c) \/ StatusStep(c)
               \/ ResetStep(c) \/ EmailStep(c) \/ Fail(c)
      PROVE  ChangeInv'
  <2>1. CASE Rejected(c)
    BY <2>1, AnsweredStep DEF Rejected
  <2>2. CASE ~ Rejected(c)
    <3>1. CASE ReadAction(c) \/ AskAuth(c)
      <4>1. ~ Answer(c) \/ Rejected(c)
        <5>1. Answer(c) => phase'[c] = "idle"
          BY DEF Answer, TypeInv
        <5>2. QED
          BY <3>1, <5>1 DEF ReadAction, AskAuth, TypeInv
      <4>2. QED
        BY <2>2, <3>1, <4>1, ReadChange
    <3>2. QED
      BY <1>3, <2>2, <3>1, SubmitChange, SessionStepChange, BeginsChange, SendResetChange,
         CloseResetChange, CallAuthChange, NoteAnswerChange, FinishChangeChange,
         FinishFailsChange, MarkFailedChange
      DEF ResetStep, EmailStep
  <2>3. QED
    BY <2>1, <2>2
<1>4. QED
  BY <1>1, <1>2, <1>3 DEF Next, Step

LEMMA InitChange == Init => ChangeInv
<1> SUFFICES ASSUME Init PROVE ChangeInv
  OBVIOUS
<1>1. \A u : PendingChanges(u) = {}
  BY DEF Init, PendingChanges
<1>2. \A u \in Users : AccountOK(u)
  BY <1>1, EmailAssumption DEF Init, AccountOK
<1>3. Alone /\ Apart /\ \A c \in Clients : HandlerOK(c)
  BY DEF Init, Alone, Apart, Opened, HandlerOK, ChangeOK, RepairOK, ResetOK, Changing,
         Repairing, Resetting, Talking
<1>4. QED
  BY <1>2, <1>3 DEF ChangeInv

LEMMA ChangesHold ==
  ASSUME ~ LossyAuth, CarefulRepair
  PROVE  Spec => [](TypeInv /\ ChangeInv)
<1>1. TypeInv /\ ChangeInv /\ [Next]_vars => TypeInv' /\ ChangeInv'
  BY StepType, NextChange
<1>2. QED
  BY <1>1, InitType, InitChange, PTL DEF Spec

\* When no answer of Auth is lost and no change is repaired beside its own request, an
\* account whose e-mail in Auth is not the local one always has an open change, through
\* every interleaving, failure and crash: reconcileManagerAccountEmail can find it.  The
\* code assures neither condition (the race run drops the second).
THEOREM DivergenceShows ==
  ASSUME ~ LossyAuth, CarefulRepair
  PROVE  Spec => []DivergenceIsRecorded
<1>1. ChangeInv => DivergenceIsRecorded
  BY DEF ChangeInv, AccountOK, DivergenceIsRecorded
<1>2. QED
  BY <1>1, ChangesHold, PTL

\* Under the same conditions the reset mail goes to the e-mail Auth has when it is called:
\* a running reset keeps every change of the e-mail from beginning, and an open change
\* keeps the reset from beginning.
THEOREM ResetsReach ==
  ASSUME ~ LossyAuth, CarefulRepair
  PROVE  Spec => ResetReachesAccount
<1>1. ASSUME TypeInv, ChangeInv, NEW c \in Clients, At(c, "calling", {"reset"})
      PROVE  prep[c].email = authEmail[req[c].user]
  <2>1. req[c].user \in Users
    BY <1>1, UserAtWork
  <2>2. PendingChanges(req[c].user) = {} /\ prep[c].email = users[req[c].user].email
    BY <1>1 DEF ChangeInv, HandlerOK, ResetOK, Resetting
  <2>3. QED
    BY <1>1, <2>1, <2>2 DEF ChangeInv, AccountOK
<1>2. TypeInv /\ ChangeInv /\ [Next]_vars
        => [\A c \in Clients :
              At(c, "calling", {"reset"}) /\ phase'[c] = "answered"
                => prep[c].email = authEmail[req[c].user]]_vars
  BY <1>1
<1>3. QED
  BY <1>2, ChangesHold, PTL DEF Spec, ResetReachesAccount
=============================================================================
