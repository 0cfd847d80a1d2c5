----------------------------- MODULE MCAccounts -----------------------------
(* Small instances of Accounts. *)
EXTENDS Accounts, TLC

CONSTANTS u1, u2, s1, s2, a1, a2, m1, m2, m3, c1, c2, c3

OneEmail == [u \in Users |-> m1]
TwoEmails == [u \in Users |-> IF u = u1 THEN m1 ELSE m2]
Symmetric == Permutations(Clients) \cup Permutations(Actions)

On(op, u) == [op |-> op, user |-> u]
Login(u, s) == [op |-> "login", user |-> u, session |-> s]
Token(op, s) == [op |-> op, session |-> s]
Change(u, m) == [op |-> "changeEmail", user |-> u, email |-> m]

(* One account is signed in to while it is blocked, recovered and changed. *)
SessionMix ==
  {Login(u1, s1), Login(u1, s2), Token("use", s1), Token("logout", s1)}
  \cup {On(op, u1) : op \in {"block", "unblock", "archive", "deactivate", "recover"}}
  \cup {Change(u1, m2)}

(* Two accounts exchange e-mails. *)
EmailMix ==
  {Change(u1, m3), Change(u1, m2), Change(u2, m3)}
  \cup {On(op, u1) : op \in {"reset", "reconcile", "archive"}}

(* One account, one change at a time asked for, and its repair. *)
RepairMix == {Change(u1, m2), Change(u1, m3), On("reconcile", u1)}

(* One run answers both questions: each behaviour draws its requests from   *)
(* one of the mixes.                                                        *)
CONSTANT Mixes
TwoMixes == {SessionMix, EmailMix}
RepairMixes == {RepairMix}
MixedRequests == UNION Mixes

VARIABLE mix

MixedInit == Init /\ mix \in Mixes
MixedNext == Next /\ UNCHANGED mix /\ \A c \in Clients : req'[c] \in mix \cup {None}
MixedSpec == MixedInit /\ [][MixedNext]_<<vars, mix>>
=============================================================================
