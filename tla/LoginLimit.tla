------------------------------ MODULE LoginLimit ------------------------------
(***************************************************************************)
(* The login limiter (services/loginRateLimit): before the password is     *)
(* looked at, a try takes one attempt from the budget of its account and   *)
(* one from that of its address, both in one transaction or neither, on    *)
(* whichever instance of the API it arrives.                               *)
(*                                                                         *)
(* The advisory lock of a budget is held until the transaction ends, and   *)
(* each statement after it sees what is committed; CURRENT_TIMESTAMP is    *)
(* the time the transaction began.                                         *)
(***************************************************************************)
EXTENDS Desk

CONSTANTS
  LoginAccounts, LoginAddresses,   \* hashes of e-mail addresses and of sockets
  AccountLimit, AddressLimit,
  KeyRank,                         \* the order of the hashes
  LoginWindow,                     \* the ticks a budget lasts
  LoginTimeout,                    \* the ticks a transaction may take
  Tries, TryAccount, TryAddress    \* the sign-ins that arrive

ASSUME LimitAssumption ==
  /\ None \notin LoginAccounts \cup LoginAddresses \cup Tries
  /\ None \notin [attempts : Nat \ {0}, expires : Nat]
  /\ {AccountLimit, AddressLimit, LoginWindow} \subseteq Nat \ {0} /\ LoginTimeout \in Nat
  /\ TryAccount \in [Tries -> LoginAccounts] /\ TryAddress \in [Tries -> Null(LoginAddresses)]

VARIABLES
  budgets,     \* login_rate_limit_buckets, None where there is no row
  budgetLock,  \* who holds the advisory lock of a budget
  tries

limitVars == <<budgets, budgetLock, tries>>

Budgets == LoginAccounts \cup LoginAddresses
LimitOf(k) == IF k \in LoginAccounts THEN AccountLimit ELSE AddressLimit
BudgetRow == [attempts : Nat \ {0}, expires : Nat]
TryRow == [state : {"new", "open", "granted", "refused", "failed"}, keys : SUBSET Budgets,
           todo : SUBSET Budgets, at : Nat, windows : [Budgets -> Nat], counted : BOOLEAN]

LimitInit ==
  /\ budgets = [k \in Budgets |-> None]
  /\ budgetLock = [k \in Budgets |-> None]
  /\ tries = [t \in Tries |->
       [state |-> "new", keys |-> {}, todo |-> {}, at |-> 0,
        windows |-> [k \in Budgets |-> 0], counted |-> FALSE]]

LimitTypeOK ==
  /\ budgets \in [Budgets -> Null(BudgetRow)]
  /\ budgetLock \in [Budgets -> Null(Tries)]
  /\ tries \in [Tries -> TryRow]

\* The window is over, or there was none.
Over(k, at) == budgets[k] # None => budgets[k].expires <= at
Admits(k, at) == ~Over(k, at) => budgets[k].attempts < LimitOf(k)

\* ON CONFLICT DO UPDATE: a new window, or one more attempt in this one.
ForgetsExpiry(k, at) ==   \* mutant
  IF budgets[k] = None THEN [attempts |-> 1, expires |-> at + LoginWindow]
  ELSE IF Over(k, at) THEN [budgets[k] EXCEPT !.attempts = 1]
  ELSE [budgets[k] EXCEPT !.attempts = @ + 1]
CountsFromZero(k, at) ==   \* mutant
  IF Over(k, at) THEN [attempts |-> 0, expires |-> at + LoginWindow]
  ELSE [budgets[k] EXCEPT !.attempts = @ + 1]
Counted(k, at) ==
  IF Over(k, at) THEN [attempts |-> 1, expires |-> at + LoginWindow]
  ELSE [budgets[k] EXCEPT !.attempts = @ + 1]

Unlock(t) == [k \in Budgets |-> IF budgetLock[k] = t THEN None ELSE budgetLock[k]]

\* Without DIRECT_CLIENT_SOCKET there is no address.
Try(t) ==
  LET keys == {TryAccount[t], TryAddress[t]} \ {None}
  IN /\ tries[t].state = "new"
     /\ tries' = [tries EXCEPT ![t] = [@ EXCEPT !.state = "open", !.keys = keys,
                                                !.todo = keys, !.at = now]]
     /\ UNCHANGED <<budgets, budgetLock, now>>

Wanted(t) == CHOOSE k \in tries[t].todo : \A l \in tries[t].todo : KeyRank[k] <= KeyRank[l]

\* The next budget, in the order of the hashes, is locked and has room.
TakeBudget(t) ==
  /\ tries[t].state = "open" /\ tries[t].todo # {}
  /\ LET k == Wanted(t)
     IN /\ budgetLock[k] = None
        /\ Admits(k, tries[t].at)
        /\ budgetLock' = [budgetLock EXCEPT ![k] = t]
        /\ tries' = [tries EXCEPT ![t].todo = @ \ {k}]
  /\ UNCHANGED <<budgets, now>>

\* It has none: what was taken from the other budget is rolled back.
KeepsFirst(t) ==   \* mutant
  /\ tries[t].state = "open" /\ tries[t].todo # {}
  /\ budgetLock[Wanted(t)] = None
  /\ ~Admits(Wanted(t), tries[t].at)
  /\ budgets' = [k \in Budgets |-> IF k \in tries[t].keys \ tries[t].todo
                                   THEN Counted(k, tries[t].at) ELSE budgets[k]]
  /\ tries' = [tries EXCEPT ![t].state = "refused"]
  /\ budgetLock' = Unlock(t)
  /\ UNCHANGED now
Refuse(t) ==
  /\ tries[t].state = "open" /\ tries[t].todo # {}
  /\ budgetLock[Wanted(t)] = None
  /\ ~Admits(Wanted(t), tries[t].at)
  /\ tries' = [tries EXCEPT ![t].state = "refused"]
  /\ budgetLock' = Unlock(t)
  /\ UNCHANGED <<budgets, now>>

\* The commit, whose answer may be lost: then the sign-in is turned away with an
\* attempt spent.
CommitTry(t) ==
  /\ tries[t].state = "open" /\ tries[t].todo = {}
  /\ budgets' = [k \in Budgets |-> IF k \in tries[t].keys THEN Counted(k, tries[t].at)
                                   ELSE budgets[k]]
  /\ \E outcome \in {"granted", "failed"} :
       tries' = [tries EXCEPT ![t].state = outcome, ![t].counted = TRUE,
                  ![t].windows = [k \in Budgets |->
                     IF k \in tries[t].keys THEN budgets'[k].expires ELSE 0]]
  /\ budgetLock' = Unlock(t)
  /\ UNCHANGED now

\* A timeout or an error: 503, and nothing is spent.
BreakTry(t) ==
  /\ tries[t].state = "open"
  /\ tries' = [tries EXCEPT ![t].state = "failed"]
  /\ budgetLock' = Unlock(t)
  /\ UNCHANGED <<budgets, now>>

\* No transaction outlives its timeout.
LimitTick ==
  /\ Later
  /\ \A t \in Tries : tries[t].state = "open" => now - tries[t].at < LoginTimeout
  /\ UNCHANGED limitVars

LimitStep(t) ==
  \/ Try(t) \/ TakeBudget(t) \/ Refuse(t) \/ CommitTry(t) \/ BreakTry(t)

LimitNext == LimitTick \/ \E t \in Tries : LimitStep(t)
LimitSpec == LimitInit /\ now = 0 /\ [][LimitNext]_<<limitVars, now>>

\* A row counts the tries that committed in its window, of every account and
\* address alike: a try refused by one budget has spent nothing of the other.
SpentTogether ==
  \A k \in Budgets :
    budgets[k] # None =>
      budgets[k].attempts =
        Cardinality({t \in Tries : /\ tries[t].counted
                                   /\ tries[t].windows[k] = budgets[k].expires})

\* The windows of a budget follow each other, so at their border twice the limit
\* can pass, and never more, in a time shorter than a window by what a
\* transaction may take.
BurstBounded ==
  \A k \in Budgets : \A from \in 0..LastTick :
    Cardinality({t \in Tries : /\ tries[t].state = "granted"
                               /\ k \in tries[t].keys
                               /\ tries[t].at \in from..(from + LoginWindow - LoginTimeout - 1)})
      <= 2 * LimitOf(k)

\* The limit holds for both budgets: no attempt is lost or spent twice, and no burst
\* passes that the windows do not allow.
LimitHolds == SpentTogether /\ BurstBounded
=============================================================================
