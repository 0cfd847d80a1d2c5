------------------------------ MODULE DeskProofs ------------------------------
(***************************************************************************)
(* Proofs about the smaller parts of the system, each for its own          *)
(* specification: the login limiter, the health and the pages of the       *)
(* security log, registration and the reset of an audit database.          *)
(***************************************************************************)
EXTENDS DeskParts, FiniteSetTheorems, SequenceTheorems, TLAPS

(***************************************************************************)
(* The login limiter.  In(k, w) are the tries that window w of budget k    *)
(* has counted.  The windows of a budget are a whole window apart, each    *)
(* has counted no more than the limit, and a try began after its window    *)
(* opened, but for what a transaction may take, and before it ends.        *)
(***************************************************************************)
Counters == {t \in Tries : tries[t].counted}
In(k, w) == {t \in Tries : tries[t].counted /\ tries[t].windows[k] = w}
Apart(v, w) == v = w \/ v + LoginWindow <= w \/ w + LoginWindow <= v

\* A try in its transaction has the locks it has taken, and room in their budgets.
Trying(t) ==
  LET try == tries[t]
  IN /\ try.state = "new" \/ try.at <= now
     /\ try.state = "open" => ~try.counted /\ now - try.at <= LoginTimeout
     /\ try.state = "new" => ~try.counted
     /\ try.state = "granted" => try.counted
     /\ try.todo \subseteq try.keys
     /\ try.state = "open" => \A k \in try.keys \ try.todo :
                                 budgetLock[k] = t /\ Admits(k, try.at)

\* What a counted try says of a budget it has not spent from, or has.
CountedIn(t, k) ==
  LET w == tries[t].windows[k]
  IN IF k \notin tries[t].keys THEN w = 0
     ELSE /\ tries[t].at < w /\ w <= tries[t].at + LoginWindow + LoginTimeout
          /\ budgets[k] # None /\ (w = budgets[k].expires \/ w + LoginWindow <= budgets[k].expires)
          /\ Cardinality(In(k, w)) <= LimitOf(k)

Budget(k) ==
  /\ budgets[k] # None =>
       /\ budgets[k].expires > 0 /\ budgets[k].expires <= now + LoginWindow
       /\ budgets[k].attempts = Cardinality(In(k, budgets[k].expires))
       /\ budgets[k].attempts <= LimitOf(k)
  /\ \A t \in Counters : CountedIn(t, k)
  /\ \A t, u \in Counters :
       k \in tries[t].keys \cap tries[u].keys => Apart(tries[t].windows[k], tries[u].windows[k])

LimitInv ==
  /\ LimitTypeOK /\ now \in Nat
  /\ IsFiniteSet(Counters)
  /\ \A t \in Tries : Trying(t)
  /\ \A k \in Budgets : Budget(k)

LEMMA LimitShapes ==
  /\ None \notin Tries /\ None \notin Budgets /\ None \notin BudgetRow
  /\ LoginWindow \in Nat \ {0} /\ LoginTimeout \in Nat
  /\ \A k \in Budgets : LimitOf(k) \in Nat \ {0}
  /\ \A t \in Tries : {TryAccount[t], TryAddress[t]} \ {None} \in SUBSET Budgets
<1>1. \A t \in Tries : TryAccount[t] \in LoginAccounts /\ TryAddress[t] \in Null(LoginAddresses)
  BY LimitAssumption
<1>2. QED
  BY <1>1, LimitAssumption DEF Budgets, BudgetRow, LimitOf, Null

LEMMA LimitRows ==
  ASSUME LimitTypeOK
  PROVE  /\ \A k \in Budgets : budgets[k] \in Null(BudgetRow)
         /\ \A k \in Budgets : budgets[k] # None =>
              budgets[k].attempts \in Nat \ {0} /\ budgets[k].expires \in Nat
         /\ \A t \in Tries :
              /\ tries[t] \in TryRow /\ tries[t].at \in Nat /\ tries[t].counted \in BOOLEAN
              /\ tries[t].keys \subseteq Budgets /\ tries[t].todo \subseteq Budgets
              /\ \A k \in Budgets : tries[t].windows[k] \in Nat
<1>1. ASSUME NEW k \in Budgets
      PROVE  /\ budgets[k] \in Null(BudgetRow)
             /\ budgets[k] # None => budgets[k].attempts \in Nat \ {0} /\ budgets[k].expires \in Nat
  BY DEF LimitTypeOK, BudgetRow, Null
<1>2. ASSUME NEW t \in Tries PROVE tries[t] \in TryRow
  BY DEF LimitTypeOK
<1>3. ASSUME NEW t \in Tries
      PROVE  /\ tries[t].at \in Nat /\ tries[t].counted \in BOOLEAN
             /\ tries[t].keys \subseteq Budgets /\ tries[t].todo \subseteq Budgets
             /\ \A k \in Budgets : tries[t].windows[k] \in Nat
  BY <1>2 DEF TryRow
<1>4. QED
  BY <1>1, <1>2, <1>3

LEMMA InitLimit == LimitInit /\ now = 0 => LimitInv
<1> SUFFICES ASSUME LimitInit, now = 0 PROVE LimitInv
  OBVIOUS
<1>1. LimitTypeOK
  BY DEF LimitInit, LimitTypeOK, TryRow, Null
<1>2. Counters = {}
  BY DEF LimitInit, Counters
<1>3. ASSUME NEW t \in Tries PROVE Trying(t)
  BY DEF LimitInit, Trying
<1>4. ASSUME NEW k \in Budgets PROVE Budget(k)
  BY <1>2 DEF LimitInit, Budget
<1>5. QED
  BY <1>1, <1>2, <1>3, <1>4, FS_EmptySet DEF LimitInv

(* ------------------------------------------- steps that count no attempt *)
\* The budgets are as they were when no try is counted and none expires.
LEMMA BudgetsStay ==
  ASSUME LimitInv, UNCHANGED budgets, now' \in Nat, now <= now',
         \A t \in Tries : tries'[t].counted = tries[t].counted,
         \A t \in Counters : tries'[t] = tries[t]
  PROVE  IsFiniteSet(Counters') /\ \A k \in Budgets : Budget(k)'
<1>1. Counters' = Counters
  BY DEF Counters
<1>2. \A k, w : In(k, w)' = In(k, w)
  BY DEF In, Counters
<1>3. ASSUME NEW k \in Budgets PROVE Budget(k)'
  <2>1. Budget(k) /\ now \in Nat
    BY DEF LimitInv
  <2>2. ASSUME budgets[k] # None
        PROVE  /\ budgets[k].expires > 0 /\ budgets[k].expires <= now' + LoginWindow
               /\ budgets[k].attempts = Cardinality(In(k, budgets[k].expires)')
               /\ budgets[k].attempts <= LimitOf(k)
    BY <1>2, <2>1, <2>2, LimitRows, LimitShapes DEF Budget, LimitInv
  <2>3. \A t \in Counters : CountedIn(t, k)'
    BY <1>2, <2>1 DEF Budget, CountedIn
  <2>4. \A t, u \in Counters : k \in tries'[t].keys \cap tries'[u].keys =>
          Apart(tries'[t].windows[k], tries'[u].windows[k])
    BY <2>1 DEF Budget
  <2>5. QED
    BY <1>1, <1>2, <2>2, <2>3, <2>4 DEF Budget
<1>4. QED
  BY <1>1, <1>3 DEF LimitInv

LEMMA TryStays ==
  ASSUME NEW u \in Tries, Trying(u), tries'[u] = tries[u], now' = now,
         \A k \in tries[u].keys \ tries[u].todo :
           budgetLock[k] = u => budgetLock'[k] = u /\ budgets'[k] = budgets[k]
  PROVE  Trying(u)'
BY DEF Trying, Admits, Over

\* A step of t that counts no attempt.
LEMMA Uncounted ==
  ASSUME LimitInv, NEW t \in Tries, NEW row \in TryRow, tries' = [tries EXCEPT ![t] = row],
         UNCHANGED <<budgets, now>>, ~tries[t].counted, ~row.counted,
         budgetLock' \in [Budgets -> Null(Tries)],
         \A k \in Budgets : budgetLock'[k] = budgetLock[k] \/ budgetLock[k] \in {None, t},
         Trying(t)'
  PROVE  LimitInv'
<1>1. /\ tries'[t] = row /\ \A u \in Tries \ {t} : tries'[u] = tries[u]
      /\ LimitTypeOK
  BY DEF LimitInv, LimitTypeOK
<1>2. LimitTypeOK'
  BY <1>1 DEF LimitTypeOK
<1>3. ASSUME NEW u \in Tries PROVE Trying(u)'
  <2>1. CASE u # t
    <3>1. tries'[u] = tries[u] /\ Trying(u)
      BY <1>1, <2>1 DEF LimitInv
    <3>2. \A k \in tries[u].keys \ tries[u].todo : budgetLock[k] = u => budgetLock'[k] = u
      BY <1>1, <2>1, LimitRows, LimitShapes
    <3>3. QED
      BY <3>1, <3>2, TryStays
  <2>2. QED
    BY <2>1
<1>4. \A u \in Tries : tries'[u].counted = tries[u].counted
  <2>1. row.counted \in BOOLEAN /\ tries[t].counted \in BOOLEAN
    BY <1>1, LimitRows DEF TryRow
  <2>2. row.counted = tries[t].counted
    BY <2>1
  <2>3. QED
    BY <1>1, <2>2
<1>5. \A u \in Counters : tries'[u] = tries[u]
  BY <1>1 DEF Counters
<1>6. now \in Nat
  BY DEF LimitInv
<1>7. QED
  BY <1>2, <1>3, <1>4, <1>5, <1>6, BudgetsStay DEF LimitInv

LEMMA UnlockIs ==
  ASSUME LimitTypeOK, NEW t \in Tries
  PROVE  /\ Unlock(t) \in [Budgets -> Null(Tries)]
         /\ \A k \in Budgets : Unlock(t)[k] = budgetLock[k] \/ budgetLock[k] = t
BY DEF Unlock, LimitTypeOK, Null

LEMMA TryStep == ASSUME LimitInv, NEW t \in Tries, Try(t) PROVE LimitInv'
<1> DEFINE keys == {TryAccount[t], TryAddress[t]} \ {None}
           row == [tries[t] EXCEPT !.state = "open", !.keys = keys, !.todo = keys, !.at = now]
<1>1. /\ tries[t].state = "new" /\ tries' = [tries EXCEPT ![t] = row]
      /\ UNCHANGED <<budgets, budgetLock, now>>
  BY DEF Try
<1>2. /\ LimitTypeOK /\ tries[t] \in TryRow /\ now \in Nat /\ ~tries[t].counted
      /\ tries \in [Tries -> TryRow] /\ budgetLock \in [Budgets -> Null(Tries)]
  BY <1>1 DEF LimitInv, LimitTypeOK, Trying
<1>3. keys \in SUBSET Budgets
  BY LimitShapes
<1> HIDE DEF keys
<1>4. /\ row \in TryRow /\ row.state = "open" /\ row.counted = tries[t].counted
      /\ row.keys = keys /\ row.todo = keys /\ row.at = now
  BY <1>2, <1>3 DEF TryRow
<1> HIDE DEF row
<1>5. tries'[t] = row
  BY <1>1, <1>2
<1>6. Trying(t)'
  BY <1>1, <1>2, <1>4, <1>5, LimitShapes DEF Trying
<1>7. QED
  BY <1>1, <1>2, <1>4, <1>6, Uncounted

\* Both ends of a transaction that spends nothing.
LEMMA BrokenStep == ASSUME LimitInv, NEW t \in Tries, Refuse(t) \/ BreakTry(t) PROVE LimitInv'
<1>1. PICK state \in {"refused", "failed"} :
        /\ tries[t].state = "open"
        /\ tries' = [tries EXCEPT ![t] = [tries[t] EXCEPT !.state = state]]
        /\ budgetLock' = Unlock(t) /\ UNCHANGED <<budgets, now>>
  BY DEF Refuse, BreakTry
<1> DEFINE row == [tries[t] EXCEPT !.state = state]
<1>2. tries' = [tries EXCEPT ![t] = row]
  BY <1>1
<1>3. /\ LimitTypeOK /\ tries[t] \in TryRow /\ now \in Nat /\ ~tries[t].counted /\ Trying(t)
      /\ tries \in [Tries -> TryRow] /\ budgetLock \in [Budgets -> Null(Tries)]
  BY <1>1 DEF LimitInv, LimitTypeOK, Trying
<1>4. /\ row \in TryRow /\ row.state = state /\ row.counted = tries[t].counted
      /\ row.keys = tries[t].keys /\ row.todo = tries[t].todo /\ row.at = tries[t].at
  BY <1>3 DEF TryRow
<1> HIDE DEF row
<1>5. tries'[t] = row
  BY <1>2, <1>3
<1>6. Trying(t)'
  BY <1>1, <1>3, <1>4, <1>5 DEF Trying
<1>7. /\ budgetLock' \in [Budgets -> Null(Tries)]
      /\ \A k \in Budgets : budgetLock'[k] = budgetLock[k] \/ budgetLock[k] \in {None, t}
  BY <1>1, <1>3, UnlockIs
<1>8. QED
  BY <1>1, <1>2, <1>3, <1>4, <1>6, <1>7, Uncounted

LEMMA TakeStep == ASSUME LimitInv, NEW t \in Tries, TakeBudget(t) PROVE LimitInv'
<1>1. PICK k : k = Wanted(t)
  OBVIOUS
<1>2. /\ tries[t].state = "open" /\ budgetLock[k] = None /\ Admits(k, tries[t].at)
      /\ budgetLock' = [budgetLock EXCEPT ![k] = t]
      /\ tries' = [tries EXCEPT ![t].todo = @ \ {k}]
      /\ UNCHANGED <<budgets, now>>
  BY <1>1 DEF TakeBudget
<1> DEFINE row == [tries[t] EXCEPT !.todo = tries[t].todo \ {k}]
<1>3. tries' = [tries EXCEPT ![t] = row]
  BY <1>2
<1>4. /\ LimitTypeOK /\ tries[t] \in TryRow /\ now \in Nat /\ ~tries[t].counted /\ Trying(t)
      /\ tries \in [Tries -> TryRow] /\ budgetLock \in [Budgets -> Null(Tries)]
      /\ tries[t].keys \subseteq Budgets
  BY <1>2, LimitRows DEF LimitInv, LimitTypeOK, Trying
<1>5. /\ row \in TryRow /\ row.state = "open" /\ row.counted = tries[t].counted
      /\ row.keys = tries[t].keys /\ row.todo = tries[t].todo \ {k} /\ row.at = tries[t].at
  BY <1>2, <1>4 DEF TryRow
<1> HIDE DEF row
<1>6. tries'[t] = row
  BY <1>3, <1>4
<1>7. budgetLock' \in [Budgets -> Null(Tries)]
  BY <1>2, <1>4 DEF Null
<1>8. \A l \in Budgets : IF l = k THEN budgetLock'[l] = t ELSE budgetLock'[l] = budgetLock[l]
  BY <1>2, <1>4
<1>9. ASSUME NEW l \in row.keys \ row.todo
      PROVE  budgetLock'[l] = t /\ Admits(l, tries[t].at)
  <2>1. l \in Budgets
    BY <1>4, <1>5
  <2>2. Admits(l, tries[t].at)
    BY <1>2, <1>4, <1>5 DEF Trying
  <2>3. budgetLock'[l] = t
    BY <1>2, <1>4, <1>5, <1>8, <2>1 DEF Trying
  <2>4. QED
    BY <2>2, <2>3
<1>10. Trying(t)'
  BY <1>2, <1>4, <1>5, <1>6, <1>9 DEF Trying, Admits, Over
<1>11. QED
  BY <1>2, <1>3, <1>4, <1>5, <1>7, <1>8, <1>10, Uncounted

(* ------------------------------------------------------------- the commit *)
LEMMA CommitLimitStep == ASSUME LimitInv, NEW t \in Tries, CommitTry(t) PROVE LimitInv'
<1> DEFINE keys == tries[t].keys
           at == tries[t].at
           after(k) == IF k \in keys THEN Counted(k, at) ELSE budgets[k]
           windows == [k \in Budgets |-> IF k \in keys THEN after(k).expires ELSE 0]
<1>1. PICK state \in {"granted", "failed"} :
        /\ tries[t].state = "open" /\ tries[t].todo = {}
        /\ budgets' = [k \in Budgets |-> after(k)]
        /\ tries' = [tries EXCEPT ![t].state = state, ![t].counted = TRUE,
                       ![t].windows = [k \in Budgets |->
                          IF k \in keys THEN budgets'[k].expires ELSE 0]]
        /\ budgetLock' = Unlock(t) /\ now' = now
  BY DEF CommitTry
<1>2. /\ LimitTypeOK /\ tries[t] \in TryRow /\ now \in Nat /\ Trying(t)
      /\ tries \in [Tries -> TryRow] /\ keys \subseteq Budgets /\ at \in Nat
      /\ LoginWindow \in Nat \ {0} /\ LoginTimeout \in Nat
  BY LimitRows, LimitShapes DEF LimitInv, LimitTypeOK
<1>3. ~tries[t].counted /\ at <= now /\ now - at <= LoginTimeout /\ t \notin Counters
  BY <1>1, <1>2 DEF Trying, Counters
<1>4. \A k \in keys : budgetLock[k] = t /\ Admits(k, at)
  BY <1>1, <1>2 DEF Trying
<1>5. \A k \in Budgets : budgets'[k] = after(k)
  BY <1>1
<1>6. ASSUME NEW k \in keys
      PROVE  /\ after(k) \in BudgetRow /\ after(k).expires > at
             /\ after(k).expires <= at + LoginWindow + LoginTimeout
             /\ after(k).expires <= now + LoginWindow
             /\ after(k).attempts <= LimitOf(k)
  <2>1. k \in Budgets /\ LimitOf(k) \in Nat \ {0} /\ Budget(k)
    BY <1>2, LimitShapes DEF LimitInv
  <2>2. CASE Over(k, at)
    <3>1. after(k) = [attempts |-> 1, expires |-> at + LoginWindow]
      BY <2>2 DEF Counted
    <3>2. QED
      BY <1>2, <1>3, <2>1, <3>1 DEF BudgetRow
  <2>3. CASE ~Over(k, at)
    <3>1. budgets[k] # None /\ budgets[k].expires > at
      BY <1>2, <2>1, <2>3, LimitRows DEF Over
    <3>2. budgets[k] \in BudgetRow
      BY <1>2, <2>1, <3>1, LimitRows DEF Null
    <3>3. /\ after(k) \in BudgetRow /\ after(k).expires = budgets[k].expires
          /\ after(k).attempts = budgets[k].attempts + 1
      BY <2>3, <3>2 DEF Counted, BudgetRow
    <3>4. budgets[k].attempts < LimitOf(k)
      BY <1>4, <2>3 DEF Admits
    <3>5. budgets[k].expires <= now + LoginWindow
      BY <2>1, <3>1 DEF Budget
    <3>6. QED
      BY <1>2, <1>3, <2>1, <3>1, <3>2, <3>3, <3>4, <3>5 DEF BudgetRow
  <2>4. QED
    BY <2>2, <2>3
<1> HIDE DEF after
<1>7. /\ windows \in [Budgets -> Nat]
      /\ \A k \in keys : windows[k] = after(k).expires /\ windows[k] \in Nat
      /\ \A k \in Budgets \ keys : windows[k] = 0
  <2>1. \A k \in keys : after(k).expires \in Nat
    BY <1>6 DEF BudgetRow
  <2>2. QED
    BY <1>2, <2>1
<1> DEFINE row == [tries[t] EXCEPT !.state = state, !.counted = TRUE, !.windows = windows]
<1>8. tries' = [tries EXCEPT ![t] = row]
  <2>1. [k \in Budgets |-> IF k \in keys THEN budgets'[k].expires ELSE 0] = windows
    BY <1>2, <1>5
  <2>2. QED
    BY <1>1, <2>1
<1> HIDE DEF windows
<1>9. /\ row \in TryRow /\ row.state = state /\ row.counted = TRUE /\ row.windows = windows
      /\ row.keys = keys /\ row.todo = {} /\ row.at = at
  BY <1>1, <1>2, <1>7 DEF TryRow
<1> HIDE DEF row
<1>10. tries'[t] = row /\ \A u \in Tries \ {t} : tries'[u] = tries[u]
  BY <1>2, <1>8
<1>11. LimitTypeOK'
  <2>1. budgets' \in [Budgets -> Null(BudgetRow)]
    <3>1. \A k \in Budgets : after(k) \in Null(BudgetRow)
      BY <1>2, <1>6, LimitRows DEF Null, after
    <3>2. QED
      BY <1>1, <3>1
  <2>2. tries' \in [Tries -> TryRow]
    BY <1>2, <1>8, <1>9
  <2>3. QED
    BY <1>1, <1>2, <2>1, <2>2, UnlockIs DEF LimitTypeOK
<1>12. Counters' = Counters \cup {t}
  BY <1>3, <1>9, <1>10 DEF Counters
<1>13. IsFiniteSet(Counters) /\ IsFiniteSet(Counters')
  BY <1>12, FS_AddElement DEF LimitInv
<1>14. ASSUME NEW u \in Tries PROVE Trying(u)'
  <2>1. CASE u = t
    <3>1. /\ tries'[u].state \in {"granted", "failed"} /\ tries'[u].counted
          /\ tries'[u].todo = {} /\ tries'[u].at <= now'
      BY <1>1, <1>3, <1>9, <1>10, <2>1
    <3>2. QED
      BY <3>1 DEF Trying
  <2>2. CASE u # t
    <3>1. tries'[u] = tries[u] /\ Trying(u) /\ tries[u].keys \subseteq Budgets
      BY <1>2, <1>10, <2>2, LimitRows DEF LimitInv
    <3>2. ASSUME NEW k \in Budgets, budgetLock[k] = u
          PROVE  budgetLock'[k] = u /\ budgets'[k] = budgets[k]
      <4>1. k \notin keys
        BY <1>4, <2>2, <3>2
      <4>2. budgets'[k] = budgets[k]
        BY <1>5, <4>1 DEF after
      <4>3. budgetLock'[k] = u
        BY <1>1, <1>2, <2>2, <3>2, UnlockIs
      <4>4. QED
        BY <4>2, <4>3
    <3>3. QED
      BY <1>1, <3>1, <3>2, TryStays
  <2>3. QED
    BY <2>1, <2>2
<1>15. ASSUME NEW k \in Budgets PROVE Budget(k)'
  <2>1. /\ Budget(k) /\ LimitOf(k) \in Nat \ {0}
        /\ \A u \in Counters : u # t /\ tries'[u] = tries[u] /\ tries[u].windows[k] \in Nat
                               /\ tries[u].at \in Nat
    BY <1>2, <1>3, <1>10, LimitRows, LimitShapes DEF Counters, LimitInv
  <2>2. \A w : In(k, w)' = IF w = windows[k] THEN In(k, w) \cup {t} ELSE In(k, w)
    <3>1. \A w : In(k, w) = {u \in Counters : tries[u].windows[k] = w}
      BY DEF In, Counters
    <3>2. \A w : In(k, w)' = {u \in Counters' : tries'[u].windows[k] = w}
      BY DEF In, Counters
    <3>3. \A w : In(k, w)' = In(k, w) \cup (IF w = windows[k] THEN {t} ELSE {})
      <4>1. tries'[t].windows[k] = windows[k]
        BY <1>9, <1>10
      <4>2. \A u \in Counters : tries'[u].windows[k] = tries[u].windows[k]
        BY <2>1
      <4>3. ASSUME NEW w, NEW u
            PROVE  u \in In(k, w)' <=> u \in In(k, w) \/ (u = t /\ w = windows[k])
        BY <1>12, <2>1, <3>1, <3>2, <4>1, <4>2
      <4>4. QED
        BY <4>3
    <3>4. QED
      BY <3>3
  <2>3. \A u \in Counters : CountedIn(u, k)
    BY <2>1 DEF Budget
  <2>4. CASE k \notin keys
    <3>1. budgets'[k] = budgets[k] /\ windows[k] = 0
      BY <1>5, <1>7, <2>4 DEF after
    <3>2. \A w : w # 0 => In(k, w)' = In(k, w)
      BY <2>2, <3>1
    <3>3. budgets'[k] # None =>
            /\ budgets'[k].expires > 0 /\ budgets'[k].expires <= now' + LoginWindow
            /\ budgets'[k].attempts = Cardinality(In(k, budgets[k].expires)')
            /\ budgets'[k].attempts <= LimitOf(k)
      BY <1>1, <2>1, <3>1, <3>2 DEF Budget
    <3>4. ASSUME NEW u \in Counters PROVE CountedIn(u, k)'
      <4>1. k \in tries[u].keys => tries[u].windows[k] # 0
        BY <2>1, <2>3 DEF CountedIn
      <4>2. QED
        BY <2>1, <2>3, <3>1, <3>2, <4>1 DEF CountedIn
    <3>5. CountedIn(t, k)'
      BY <1>9, <1>10, <2>4, <3>1 DEF CountedIn
    <3>6. \A u, v \in Counters' : k \in tries'[u].keys \cap tries'[v].keys =>
            u \in Counters /\ v \in Counters
      BY <1>9, <1>10, <1>12, <2>4
    <3>7. \A u, v \in Counters' : k \in tries'[u].keys \cap tries'[v].keys =>
            Apart(tries'[u].windows[k], tries'[v].windows[k])
      BY <2>1, <3>6 DEF Budget
    <3>8. QED
      BY <1>12, <3>1, <3>3, <3>4, <3>5, <3>7 DEF Budget
  <2>5. CASE k \in keys
    <3> DEFINE e == windows[k]
    <3>1. /\ budgets'[k] = after(k) /\ e = after(k).expires /\ e \in Nat /\ e > at
          /\ after(k) # None
      BY <1>5, <1>6, <1>7, <2>5, LimitShapes
    <3>2. /\ \A u \in Counters : k \in tries[u].keys =>
               tries[u].windows[k] = e \/ tries[u].windows[k] + LoginWindow <= e
          /\ after(k).attempts = Cardinality(In(k, e) \cup {t})
      <4>1. CASE Over(k, at)
        <5>1. after(k) = [attempts |-> 1, expires |-> at + LoginWindow]
          BY <2>5, <4>1 DEF Counted, after
        <5>2. ASSUME NEW u \in Counters
              PROVE  /\ k \in tries[u].keys => tries[u].windows[k] + LoginWindow <= e
                     /\ tries[u].windows[k] # e
          <6>1. CASE k \notin tries[u].keys
            BY <1>2, <2>3, <3>1, <6>1 DEF CountedIn
          <6>2. CASE k \in tries[u].keys
            <7>1. budgets[k] # None /\ tries[u].windows[k] <= budgets[k].expires
              BY <1>2, <2>1, <2>3, <6>2, LimitRows DEF CountedIn
            <7>2. budgets[k].expires <= at /\ budgets[k].expires \in Nat
              BY <1>2, <4>1, <7>1, LimitRows DEF Over
            <7>3. QED
              BY <1>2, <2>1, <3>1, <5>1, <7>1, <7>2
          <6>3. QED
            BY <6>1, <6>2
        <5>3. In(k, e) = {}
          BY <5>2 DEF In, Counters
        <5>4. Cardinality({} \cup {t}) = 1
          BY FS_EmptySet, FS_AddElement
        <5>5. QED
          BY <5>1, <5>2, <5>3, <5>4
      <4>2. CASE ~Over(k, at)
        <5>1. budgets[k] # None /\ budgets[k] \in BudgetRow
          BY <1>2, <4>2, LimitRows DEF Over, Null
        <5>2. after(k).attempts = budgets[k].attempts + 1 /\ e = budgets[k].expires
          BY <2>5, <3>1, <4>2, <5>1 DEF Counted, after, BudgetRow
        <5>3. budgets[k].attempts = Cardinality(In(k, e))
          BY <2>1, <5>1, <5>2 DEF Budget
        <5>4. In(k, e) \subseteq Counters /\ t \notin In(k, e)
          BY <1>3 DEF In, Counters
        <5>5. Cardinality(In(k, e) \cup {t}) = Cardinality(In(k, e)) + 1
          BY <1>13, <5>4, FS_Subset, FS_AddElement
        <5>6. QED
          BY <2>3, <5>2, <5>3, <5>5 DEF CountedIn
      <4>3. QED
        BY <4>1, <4>2
    <3>4. PICK size : size = Cardinality(In(k, e) \cup {t})
      OBVIOUS
    <3>5. size <= LimitOf(k)
      BY <1>6, <2>5, <3>2, <3>4
    <3> HIDE DEF e
    <3>6. \A w : w = e => Cardinality(In(k, w)') = size
      BY <2>2, <3>4 DEF e
    <3>7. budgets'[k] # None =>
            /\ budgets'[k].expires > 0 /\ budgets'[k].expires <= now' + LoginWindow
            /\ budgets'[k].attempts = size
            /\ budgets'[k].attempts <= LimitOf(k)
      BY <1>1, <1>2, <1>6, <2>5, <3>1, <3>2, <3>4
    <3>8. ASSUME NEW u \in Counters PROVE CountedIn(u, k)'
      <4>1. CASE k \notin tries[u].keys
        BY <2>1, <2>3, <4>1 DEF CountedIn
      <4>2. CASE k \in tries[u].keys
        <5>1. PICK w : w = tries[u].windows[k]
          OBVIOUS
        <5>2. w = e \/ w + LoginWindow <= e
          BY <3>2, <4>2, <5>1
        <5>3. Cardinality(In(k, w)') <= LimitOf(k)
          <6>1. CASE w = e
            BY <3>5, <3>6, <6>1
          <6>2. CASE w # e
            <7>1. In(k, w)' = In(k, w)
              BY <2>2, <6>2 DEF e
            <7>2. QED
              BY <2>3, <4>2, <5>1, <7>1 DEF CountedIn
          <6>3. QED
            BY <6>1, <6>2
        <5>4. tries[u].at < w /\ w <= tries[u].at + LoginWindow + LoginTimeout
          BY <2>3, <4>2, <5>1 DEF CountedIn
        <5>5. tries'[u].windows[k] = w /\ tries'[u].at = tries[u].at
          BY <2>1, <5>1
        <5>6. Cardinality(In(k, tries[u].windows[k])') <= LimitOf(k)
          BY <5>3, <5>5
        <5>7. QED
          BY <2>1, <3>1, <4>2, <5>2, <5>4, <5>5, <5>6 DEF CountedIn
      <4>3. QED
        BY <4>1, <4>2
    <3>9. CountedIn(t, k)'
      <4>1. tries'[t].windows[k] = e /\ tries'[t].at = at /\ tries'[t].keys = keys
        BY <1>9, <1>10 DEF e
      <4>2. Cardinality(In(k, tries[t].windows[k])') <= LimitOf(k)
        BY <3>5, <3>6, <4>1
      <4>3. QED
        BY <1>6, <2>5, <3>1, <4>1, <4>2 DEF CountedIn
    <3>10. \A u, v \in Counters' : k \in tries'[u].keys \cap tries'[v].keys =>
             Apart(tries'[u].windows[k], tries'[v].windows[k])
      <4>1. tries'[t].windows[k] = e
        BY <1>9, <1>10 DEF e
      <4>2. \A u \in Counters : k \in tries'[u].keys =>
              Apart(tries'[u].windows[k], e) /\ Apart(e, tries'[u].windows[k])
        BY <2>1, <3>2 DEF Apart
      <4>3. \A u, v \in Counters : k \in tries'[u].keys \cap tries'[v].keys =>
              Apart(tries'[u].windows[k], tries'[v].windows[k])
        BY <2>1 DEF Budget
      <4>4. Apart(e, e)
        BY DEF Apart
      <4>5. QED
        BY <1>12, <4>1, <4>2, <4>3, <4>4
    <3>11. QED
      BY <1>12, <3>1, <3>6, <3>7, <3>8, <3>9, <3>10 DEF Budget
  <2>6. QED
    BY <2>4, <2>5
<1>16. QED
  BY <1>1, <1>2, <1>11, <1>13, <1>14, <1>15 DEF LimitInv

(* ---------------------------------------------------------------- theorem *)
LEMMA TickStep ==
  ASSUME LimitInv, LimitTick \/ UNCHANGED <<limitVars, now>> PROVE LimitInv'
<1>1. LimitTypeOK /\ now \in Nat
  BY DEF LimitInv
<1>2. /\ UNCHANGED limitVars
      /\ \/ now' = now
         \/ now' = now + 1 /\ \A t \in Tries : tries[t].state = "open" => now - tries[t].at < LoginTimeout
  BY DEF LimitTick, Later
<1>3. LimitTypeOK' /\ now' \in Nat /\ now <= now'
  BY <1>1, <1>2 DEF LimitTypeOK, limitVars
<1>4. ASSUME NEW t \in Tries PROVE Trying(t)'
  <2>1. Trying(t) /\ tries[t].at \in Nat /\ tries'[t] = tries[t]
    BY <1>1, <1>2, LimitRows DEF LimitInv, limitVars
  <2>2. tries[t].state = "open" => now' - tries[t].at <= LoginTimeout
    BY <1>1, <1>2, <2>1, LimitShapes DEF Trying
  <2>3. tries[t].state = "new" \/ tries[t].at <= now'
    BY <1>1, <1>3, <2>1 DEF Trying
  <2>4. QED
    BY <1>2, <2>1, <2>2, <2>3 DEF Trying, Admits, Over, limitVars
<1>5. IsFiniteSet(Counters') /\ \A k \in Budgets : Budget(k)'
  BY <1>2, <1>3, BudgetsStay DEF limitVars
<1>6. QED
  BY <1>3, <1>4, <1>5 DEF LimitInv

LEMMA LimitMoves == ASSUME LimitInv, [LimitNext]_<<limitVars, now>> PROVE LimitInv'
BY TickStep, TryStep, TakeStep, BrokenStep, CommitLimitStep DEF LimitNext, LimitStep

LEMMA Spent == ASSUME LimitInv PROVE SpentTogether
BY DEF LimitInv, Budget, In, SpentTogether

\* Tries that begin within a window, less the time of a transaction, are counted by
\* at most two windows.
LEMMA Bursts == ASSUME LimitInv PROVE BurstBounded
<1> SUFFICES ASSUME NEW k \in Budgets, NEW from \in 0..LastTick
             PROVE  Cardinality({t \in Tries : /\ tries[t].state = "granted"
                                               /\ k \in tries[t].keys
                                               /\ tries[t].at \in from..(from + LoginWindow - LoginTimeout - 1)})
                      <= 2 * LimitOf(k)
  BY DEF BurstBounded
<1> DEFINE burst == {t \in Tries : /\ tries[t].state = "granted"
                                   /\ k \in tries[t].keys
                                   /\ tries[t].at \in from..(from + LoginWindow - LoginTimeout - 1)}
           w(t) == tries[t].windows[k]
<1>1. /\ LimitOf(k) \in Nat \ {0} /\ from \in Int
      /\ LoginWindow \in Nat \ {0} /\ LoginTimeout \in Nat
  BY LimitShapes
<1>2. \A t \in burst : t \in Counters /\ k \in tries[t].keys /\ CountedIn(t, k)
  BY DEF LimitInv, Trying, Counters, Budget
<1>3. \A t \in burst : /\ w(t) \in Int /\ w(t) > from
                       /\ w(t) < from + 2 * LoginWindow
  <2>1. ASSUME NEW t \in burst PROVE /\ w(t) \in Int /\ w(t) > from
                                     /\ w(t) < from + 2 * LoginWindow
    <3>1. /\ tries[t].at \in Nat /\ w(t) \in Nat
          /\ tries[t].at < w(t) /\ w(t) <= tries[t].at + LoginWindow + LoginTimeout
      BY <1>2, LimitRows DEF LimitInv, CountedIn
    <3>2. from <= tries[t].at /\ tries[t].at <= from + LoginWindow - LoginTimeout - 1
      OBVIOUS
    <3>3. QED
      BY <1>1, <3>1, <3>2
  <2>2. QED
    BY <2>1
<1>4. \A t, u \in burst : Apart(w(t), w(u))
  BY <1>2 DEF LimitInv, Budget
<1>5. \A t \in burst : /\ In(k, w(t)) \subseteq Counters
                       /\ Cardinality(In(k, w(t))) <= LimitOf(k)
  BY <1>2 DEF CountedIn, In, Counters
<1>6. \A t \in burst : t \in In(k, w(t))
  BY <1>2 DEF In, Counters
<1>7. IsFiniteSet(Counters)
  BY DEF LimitInv
<1>8. \A t \in burst : IsFiniteSet(In(k, w(t))) /\ Cardinality(In(k, w(t))) \in Nat
  BY <1>5, <1>7, FS_Subset, FS_CardinalityType
<1>9. IsFiniteSet(burst) /\ Cardinality(burst) \in Nat
  <2>1. burst \subseteq Counters
    BY <1>2
  <2>2. QED
    BY <1>7, <2>1, FS_Subset, FS_CardinalityType
<1> HIDE DEF burst, w
<1>10. CASE burst = {}
  <2>1. Cardinality(burst) = 0
    BY <1>10, FS_EmptySet
  <2>2. QED
    BY <1>1, <2>1 DEF burst
<1>11. CASE burst # {}
  <2>1. PICK t \in burst : TRUE
    BY <1>11
  <2>2. CASE \A u \in burst : w(u) = w(t)
    <3>1. burst \subseteq In(k, w(t))
      BY <1>6, <2>2
    <3>2. Cardinality(burst) <= Cardinality(In(k, w(t)))
      BY <1>8, <2>1, <3>1, FS_Subset
    <3>3. QED
      BY <1>1, <1>5, <1>8, <1>9, <2>1, <3>2 DEF burst
  <2>3. CASE \E u \in burst : w(u) # w(t)
    <3>1. PICK u \in burst : w(u) # w(t)
      BY <2>3
    <3>2. ASSUME NEW v \in burst PROVE w(v) = w(t) \/ w(v) = w(u)
      BY <1>1, <1>3, <1>4, <2>1, <3>1 DEF Apart
    <3>3. burst \subseteq In(k, w(t)) \cup In(k, w(u))
      BY <1>6, <3>2
    <3>4. /\ IsFiniteSet(In(k, w(t)) \cup In(k, w(u)))
          /\ Cardinality(In(k, w(t)) \cup In(k, w(u)))
               <= Cardinality(In(k, w(t))) + Cardinality(In(k, w(u)))
      <4>1. /\ IsFiniteSet(In(k, w(t)) \cap In(k, w(u)))
            /\ Cardinality(In(k, w(t)) \cap In(k, w(u))) \in Nat
        BY <1>8, <2>1, <3>1, FS_Intersection, FS_CardinalityType
      <4>2. QED
        BY <1>8, <2>1, <3>1, <4>1, FS_Union
    <3>5. /\ Cardinality(burst) <= Cardinality(In(k, w(t)) \cup In(k, w(u)))
          /\ Cardinality(In(k, w(t)) \cup In(k, w(u))) \in Nat
      BY <3>3, <3>4, FS_Subset, FS_CardinalityType
    <3>6. QED
      BY <1>1, <1>5, <1>8, <1>9, <2>1, <3>1, <3>4, <3>5 DEF burst
  <2>4. QED
    BY <2>2, <2>3
<1>12. QED
  BY <1>10, <1>11

\* Neither budget is spent without the other nor lost, and no burst passes that the
\* windows do not allow, on however many instances the tries arrive and whichever
\* of their transactions break (services/loginRateLimit).
THEOREM LimitsHold == LimitSpec => []LimitHolds
<1>1. LimitInv => LimitHolds
  BY Spent, Bursts DEF LimitHolds
<1>2. QED
  BY InitLimit, LimitMoves, <1>1, PTL DEF LimitSpec

(***************************************************************************)
(* The health of the security log.  What a process remembers for a part is *)
(* not older than any failure of it that the table does not show yet, so   *)
(* that a write that forgets it has covered them all.                      *)
(***************************************************************************)
Shown(r, row) == row.failure # None /\ row.failure >= reports[r].at
InTable(r) == Shown(r, health[ReportPart[r]])
Pending(r) == pendings[ReportBy[r]][ReportPart[r]]
Remembered(r) == Pending(r) # None /\ Pending(r).at >= reports[r].at

Reported(r) ==
  /\ reports[r].state # "new" => reports[r].at <= now
  /\ ~reports[r].ok =>
       /\ reports[r].state = "writing" =>
            reports[r].failure # None /\ reports[r].failure.at = reports[r].at
       /\ reports[r].state = "written" => InTable(r)
       /\ reports[r].state \in {"writing", "missed"} => InTable(r) \/ Remembered(r)

\* What an answer is made of shows every failure that was written before.
Answered(p) ==
  \A r \in answers[p].written :
    /\ answers[p].state \in {"read", "given"} => reports[r].state = "written" /\ ~reports[r].ok
    /\ answers[p].state = "read" => Shown(r, answers[p].rows[ReportPart[r]])
    /\ answers[p].state = "given" /\ answers[p].says = "OK" =>
         answers[p].at - reports[r].at >= FailureWindow

HealthInv ==
  /\ HealthTypeOK /\ now \in Nat
  /\ \A r \in Reports : Reported(r)
  /\ \A p \in Askers : Answered(p)

LEMMA ReportShapes ==
  /\ None \notin Nat /\ None \notin Date
  /\ FailureWindow \in Nat /\ FreshWindow \in Nat
  /\ Askers \subseteq Processes
  /\ \A r \in Reports : ReportBy[r] \in Processes /\ ReportPart[r] \in Parts
BY HealthAssumption DEF Parts, Date

LEMMA HealthShapes ==
  ASSUME HealthTypeOK
  PROVE  /\ \A c \in Parts : health[c] \in HealthRow
         /\ \A p \in Processes : \A c \in Parts : pendings[p][c] \in Null(Date)
         /\ \A p \in Processes : \A c \in Parts : lasts[p][c] \in Null(Nat)
         /\ \A r \in Reports : reports[r] \in ReportRow
         /\ \A p \in Askers : answers[p] \in AnswerRow
BY DEF HealthTypeOK

LEMMA InitHealth == HealthInit /\ now = 0 => HealthInv
<1> SUFFICES ASSUME HealthInit, now = 0 PROVE HealthInv
  OBVIOUS
<1>1. NoRows \in [Parts -> HealthRow]
  BY DEF NoRows, HealthRow, Null
<1>2. HealthTypeOK
  BY <1>1 DEF HealthInit, HealthTypeOK, ReportRow, AnswerRow, NotAsked, Null
<1>3. ASSUME NEW r \in Reports PROVE Reported(r)
  BY DEF HealthInit, Reported
<1>4. ASSUME NEW p \in Askers PROVE Answered(p)
  BY DEF HealthInit, Answered, NotAsked
<1>5. QED
  BY <1>2, <1>3, <1>4 DEF HealthInv

LEMMA GreatestIs ==
  ASSUME NEW x \in Null(Nat), NEW y \in Null(Nat)
  PROVE  /\ Greatest(x, y) \in Null(Nat)
         /\ x # None => Greatest(x, y) # None /\ Greatest(x, y) >= x
         /\ y # None => Greatest(x, y) # None /\ Greatest(x, y) >= y
BY ReportShapes DEF Greatest, Null

\* A write keeps what the row shows and adds what it brings.
LEMMA Upserts ==
  ASSUME HealthInv, NEW r \in Reports
  PROVE  LET row == health[ReportPart[r]]
         IN /\ Upserted(r) \in HealthRow
            /\ \A o \in Reports : Shown(o, row) => Shown(o, Upserted(r))
            /\ reports[r].failure # None =>
                 /\ Upserted(r).failure # None
                 /\ Upserted(r).failure >= reports[r].failure.at
<1> DEFINE row == health[ReportPart[r]]
           date == DateAt(reports[r].failure)
<1>1. row \in HealthRow /\ reports[r] \in ReportRow
  BY HealthShapes, ReportShapes DEF HealthInv
<1>2. row.success \in Null(Nat) /\ row.failure \in Null(Nat)
  BY <1>1 DEF HealthRow
<1>3. reports[r].at \in Nat /\ reports[r].ok \in BOOLEAN /\ reports[r].failure \in Null(Date)
  BY <1>1 DEF ReportRow
<1>4. /\ date \in Null(Nat)
      /\ reports[r].failure # None => date # None /\ date = reports[r].failure.at
  BY <1>3, ReportShapes DEF DateAt, Null, Date
<1>5. Upserted(r) = [success |-> Greatest(row.success, IF reports[r].ok THEN reports[r].at ELSE None),
                     failure |-> Greatest(row.failure, date)]
  BY DEF Upserted
<1>6. (IF reports[r].ok THEN reports[r].at ELSE None) \in Null(Nat)
  BY <1>3 DEF Null
<1> HIDE DEF date, row
<1>7. Upserted(r) \in HealthRow
  BY <1>2, <1>4, <1>5, <1>6, GreatestIs DEF HealthRow
<1>8. /\ row.failure # None => Upserted(r).failure # None /\ Upserted(r).failure >= row.failure
      /\ date # None => Upserted(r).failure # None /\ Upserted(r).failure >= date
  BY <1>2, <1>4, <1>5, GreatestIs
<1>9. \A o \in Reports : Shown(o, row) => Shown(o, Upserted(r))
  <2>1. \A o \in Reports : reports[o].at \in Nat
    BY HealthShapes DEF HealthInv, ReportRow
  <2>2. Upserted(r).failure \in Null(Nat)
    BY <1>7 DEF HealthRow
  <2>3. QED
    BY <1>2, <1>8, <2>1, <2>2 DEF Shown, Null
<1>10. QED
  BY <1>4, <1>7, <1>8, <1>9 DEF row

\* A step that keeps what the table shows and what is not shown yet.
LEMMA ReportStays ==
  ASSUME NEW o \in Reports, Reported(o), reports'[o] = reports[o], now' \in Nat, now \in Nat,
         now <= now', reports[o].at \in Nat,
         InTable(o) => InTable(o)', Remembered(o) => InTable(o)' \/ Remembered(o)'
  PROVE  Reported(o)'
BY DEF Reported

LEMMA AnswerStays ==
  ASSUME HealthInv, NEW p \in Askers, answers'[p] = answers[p],
         \A r \in Reports : reports[r].state = "written" => reports'[r] = reports[r]
  PROVE  Answered(p)'
<1>1. answers[p] \in AnswerRow /\ Answered(p)
  BY HealthShapes DEF HealthInv
<1>2. answers[p].written \subseteq Reports
  BY <1>1 DEF AnswerRow
<1>3. ASSUME NEW r \in answers[p].written, answers[p].state \in {"read", "given"}
      PROVE  reports'[r] = reports[r] /\ reports[r].state = "written"
  BY <1>1, <1>2, <1>3 DEF Answered
<1>4. QED
  BY <1>1, <1>3 DEF Answered, Shown

\* A report begins: a failure is remembered with it.
LEMMA ReportStep ==
  ASSUME HealthInv, NEW r \in Reports, NEW ok \in BOOLEAN, Report(r, ok)
  PROVE  HealthInv'
<1> DEFINE p == ReportBy[r]
           c == ReportPart[r]
           date == [at |-> now, by |-> r]
           failure == IF ok THEN pendings[p][c] ELSE date
           state == IF ok /\ Throttled(p, c) THEN "skipped" ELSE "writing"
           row == [state |-> state, ok |-> ok, at |-> now, failure |-> failure]
<1>1. /\ reports[r].state = "new"
      /\ pendings' = [pendings EXCEPT ![p][c] = failure]
      /\ reports' = [reports EXCEPT ![r] = row]
      /\ UNCHANGED <<health, lasts, answers, now>>
  BY DEF Report
<1>2. p \in Processes /\ c \in Parts /\ None \notin Date
  BY ReportShapes
<1>3. HealthTypeOK /\ now \in Nat
  BY DEF HealthInv
<1>4. date \in Date /\ failure \in Null(Date)
  BY <1>2, <1>3, HealthShapes DEF Date, Null
<1>5. row \in ReportRow
  BY <1>3, <1>4 DEF ReportRow
<1>6. /\ reports[r] \in ReportRow /\ reports \in [Reports -> ReportRow]
      /\ pendings \in [Processes -> [Parts -> Null(Date)]]
  BY <1>3 DEF HealthTypeOK
<1>7. HealthTypeOK'
  <2>1. pendings' \in [Processes -> [Parts -> Null(Date)]]
    BY <1>1, <1>2, <1>4, <1>6
  <2>2. reports' \in [Reports -> ReportRow]
    BY <1>1, <1>5, <1>6
  <2>3. QED
    BY <1>1, <1>3, <2>1, <2>2 DEF HealthTypeOK
<1>8. /\ reports'[r] = row /\ pendings'[p][c] = failure
      /\ \A o \in Reports \ {r} : reports'[o] = reports[o]
      /\ \A o \in Reports : Pending(o)' = IF ReportBy[o] = p /\ ReportPart[o] = c
                                          THEN failure ELSE Pending(o)
  <2>1. \A q \in Processes : \A d \in Parts :
          pendings'[q][d] = IF q = p /\ d = c THEN failure ELSE pendings[q][d]
    BY <1>1, <1>2, <1>6
  <2>2. QED
    BY <1>1, <1>2, <1>6, <2>1, ReportShapes DEF Pending
<1>9. ok = FALSE => failure = date /\ state = "writing"
  OBVIOUS
<1>10. ok = TRUE => failure = Pending(r)
  BY DEF Pending
<1> HIDE DEF failure, state
<1>11. ASSUME NEW o \in Reports PROVE Reported(o)'
  <2>1. CASE o = r
    <3>2. reports'[o].ok = ok /\ reports'[o].at = now /\ reports'[o].state = state
          /\ reports'[o].failure = failure
      BY <2>1, <1>8
    <3>3. ~ok => failure = date /\ date.at = now /\ state = "writing" /\ date # None
      BY <1>2, <1>4, <1>9
    <3>4. Pending(o)' = failure
      BY <2>1, <1>8
    <3>5. QED
      BY <1>1, <1>3, <3>2, <3>3, <3>4 DEF Reported, Remembered
  <2>2. CASE o # r
    <3>1. reports'[o] = reports[o] /\ Reported(o) /\ reports[o] \in ReportRow
      BY <2>2, <1>8, <1>3, HealthShapes DEF HealthInv
    <3>2. reports[o].at \in Nat
      BY <3>1 DEF ReportRow
    <3>3. InTable(o) => InTable(o)'
      BY <1>1, <3>1 DEF InTable, Shown
    <3>4. CASE reports[o].state = "new"
      BY <3>1, <3>4 DEF Reported
    <3>5. CASE reports[o].state # "new"
      <4>1. reports[o].at <= now
        BY <3>1, <3>5 DEF Reported
      <4>2. Remembered(o) => Remembered(o)'
        <5>1. CASE ok
          BY <5>1, <1>8, <1>10, <3>1 DEF Remembered, Pending
        <5>2. CASE ~ok
          BY <5>2, <1>2, <1>4, <1>8, <1>9, <3>1, <4>1 DEF Remembered
        <5>3. QED
          BY <5>1, <5>2
      <4>3. QED
        BY <1>1, <1>3, <3>1, <3>2, <3>3, <4>2, ReportStays
    <3>6. QED
      BY <3>4, <3>5
  <2>3. QED
    BY <2>1, <2>2
<1>12. ASSUME NEW q \in Askers PROVE Answered(q)'
  BY <1>1, <1>8, AnswerStays
<1>13. QED
  BY <1>1, <1>3, <1>7, <1>11, <1>12 DEF HealthInv

\* Both ends of a write: the row is upserted, or only shown to be as it was.
LEMMA WriteEnds ==
  ASSUME HealthInv, NEW r \in Reports, reports[r].state = "writing",
         NEW state \in {"written", "missed"}, NEW pending \in Null(Date),
         NEW last \in Null(Nat),
         reports' = [reports EXCEPT ![r].state = state],
         pendings' = [pendings EXCEPT ![ReportBy[r]][ReportPart[r]] = pending],
         lasts' = [lasts EXCEPT ![ReportBy[r]][ReportPart[r]] = last],
         UNCHANGED <<answers, now>>,
         \/ health' = health /\ state = "missed"
         \/ health' = [health EXCEPT ![ReportPart[r]] = Upserted(r)],
         \/ pending = Pending(r) \/ Pending(r) = None
         \/ pending = None /\ Pending(r) = reports[r].failure
                           /\ health' = [health EXCEPT ![ReportPart[r]] = Upserted(r)]
  PROVE  HealthInv'
<1> DEFINE p == ReportBy[r]
           c == ReportPart[r]
           row == [reports[r] EXCEPT !.state = state]
<1>1. p \in Processes /\ c \in Parts
  BY ReportShapes
<1>2. HealthTypeOK /\ now \in Nat
  BY DEF HealthInv
<1>3. /\ reports \in [Reports -> ReportRow] /\ health \in [Parts -> HealthRow]
      /\ pendings \in [Processes -> [Parts -> Null(Date)]]
      /\ lasts \in [Processes -> [Parts -> Null(Nat)]]
      /\ \A o \in Reports : reports[o] \in ReportRow
  BY <1>2 DEF HealthTypeOK
<1>4. row \in ReportRow
  BY <1>3 DEF ReportRow
<1>5. /\ row.ok = reports[r].ok /\ row.at = reports[r].at /\ row.state = state
      /\ row.failure = reports[r].failure
  BY <1>3 DEF ReportRow
<1>6. /\ reports'[r] = row /\ \A o \in Reports \ {r} : reports'[o] = reports[o]
      /\ \A o \in Reports : reports'[o].at = reports[o].at
  BY <1>3, <1>5
<1> HIDE DEF row
<1>7. HealthTypeOK'
  <2>1. pendings' \in [Processes -> [Parts -> Null(Date)]]
    BY <1>1, <1>3
  <2>2. lasts' \in [Processes -> [Parts -> Null(Nat)]]
    BY <1>1, <1>3
  <2>3. reports' \in [Reports -> ReportRow]
    <3>1. reports' = [reports EXCEPT ![r] = row]
      BY DEF row
    <3>2. QED
      BY <3>1, <1>3, <1>4
  <2>4. health' \in [Parts -> HealthRow]
    BY <1>3, Upserts
  <2>5. QED
    BY <1>2, <2>1, <2>2, <2>3, <2>4 DEF HealthTypeOK
<1>8. \A o \in Reports : Pending(o)' = IF ReportBy[o] = p /\ ReportPart[o] = c
                                       THEN pending ELSE Pending(o)
  <2>1. \A q \in Processes : \A d \in Parts :
          pendings'[q][d] = IF q = p /\ d = c THEN pending ELSE pendings[q][d]
    BY <1>1, <1>3
  <2>2. QED
    BY <2>1, ReportShapes DEF Pending
<1>9. \A o \in Reports : InTable(o) => InTable(o)'
  <2>1. ASSUME NEW o \in Reports, InTable(o) PROVE InTable(o)'
    <3>1. \/ health'[ReportPart[o]] = health[ReportPart[o]]
          \/ ReportPart[o] = c /\ health'[ReportPart[o]] = Upserted(r)
      <4>1. \A d \in Parts : \/ health'[d] = health[d]
                             \/ d = c /\ health'[d] = Upserted(r)
        <5>1. CASE health' = health
          BY <5>1
        <5>2. CASE health' = [health EXCEPT ![ReportPart[r]] = Upserted(r)]
          BY <5>2, <1>3
        <5>3. QED
          BY <5>1, <5>2
      <4>2. QED
        BY <4>1, ReportShapes
    <3>2. Shown(o, health'[ReportPart[o]])
      BY <2>1, <3>1, Upserts DEF InTable
    <3>3. QED
      BY <3>2, <1>6 DEF InTable, Shown
  <2>2. QED
    BY <2>1
<1>10. \A o \in Reports : Remembered(o) => InTable(o)' \/ Remembered(o)'
  <2>1. ASSUME NEW o \in Reports, Remembered(o) PROVE InTable(o)' \/ Remembered(o)'
    <3>1. CASE ReportBy[o] = p /\ ReportPart[o] = c
      <4>1. Pending(o) = Pending(r) /\ Pending(r) # None /\ Pending(r).at >= reports[o].at
        BY <2>1, <3>1 DEF Pending, Remembered
      <4>2. CASE pending = Pending(r)
        BY <1>6, <1>8, <3>1, <4>1, <4>2 DEF Remembered
      <4>3. CASE pending # Pending(r)
        <5>1. /\ Pending(r) = reports[r].failure
              /\ health'[c] = Upserted(r)
          BY <1>1, <1>3, <4>1, <4>3
        <5>2. Upserted(r).failure # None /\ Upserted(r).failure >= reports[r].failure.at
          BY <4>1, <5>1, Upserts
        <5>3. /\ reports[o].at \in Nat /\ reports[r].failure.at \in Nat
              /\ Upserted(r).failure \in Nat
          <6>1. reports[r].failure \in Date
            BY <1>3, <4>1, <5>1 DEF ReportRow, Null
          <6>2. Upserted(r) \in HealthRow
            BY Upserts
          <6>3. QED
            BY <1>3, <5>2, <6>1, <6>2 DEF ReportRow, HealthRow, Date, Null
        <5>4. QED
          BY <1>6, <3>1, <4>1, <5>1, <5>2, <5>3 DEF InTable, Shown
      <4>4. QED
        BY <4>2, <4>3
    <3>2. CASE ~(ReportBy[o] = p /\ ReportPart[o] = c)
      BY <1>6, <1>8, <2>1, <3>2 DEF Remembered
    <3>3. QED
      BY <3>1, <3>2
  <2>2. QED
    BY <2>1
<1>11. ASSUME NEW o \in Reports PROVE Reported(o)'
  <2>1. Reported(o) /\ reports[o].at \in Nat
    BY <1>3 DEF HealthInv, ReportRow
  <2>2. CASE o # r
    BY <1>2, <1>6, <1>9, <1>10, <2>1, <2>2, ReportStays
  <2>3. CASE o = r
    <3>1. reports'[o].at <= now'
      BY <1>6, <2>1, <2>3 DEF Reported
    <3>2. reports'[o].ok = reports[o].ok /\ reports'[o].state = state
      BY <1>5, <1>6, <2>3
    <3>3. ~reports[o].ok => InTable(o)' \/ Remembered(o)'
      BY <1>9, <1>10, <2>1, <2>3 DEF Reported
    <3>4. ASSUME ~reports[o].ok, state = "written" PROVE InTable(o)'
      <4>1. reports[r].failure # None /\ reports[r].failure.at = reports[r].at
        BY <2>1, <2>3, <3>4 DEF Reported
      <4>2. health'[c] = Upserted(r)
        BY <1>1, <1>3, <3>4
      <4>3. Upserted(r).failure # None /\ Upserted(r).failure >= reports[r].at
        BY <4>1, Upserts
      <4>4. QED
        BY <1>6, <2>3, <4>2, <4>3 DEF InTable, Shown
    <3>5. QED
      BY <3>1, <3>2, <3>3, <3>4 DEF Reported
  <2>4. QED
    BY <2>2, <2>3
<1>12. ASSUME NEW q \in Askers PROVE Answered(q)'
  BY <1>6, AnswerStays
<1>13. QED
  BY <1>2, <1>7, <1>11, <1>12 DEF HealthInv

LEMMA WrittenStep == ASSUME HealthInv, NEW r \in Reports, ReportWritten(r) PROVE HealthInv'
<1> DEFINE pending == StillPending(r)
<1>1. /\ reports[r].state = "writing"
      /\ health' = [health EXCEPT ![ReportPart[r]] = Upserted(r)]
      /\ lasts' = [lasts EXCEPT ![ReportBy[r]][ReportPart[r]] = reports[r].at]
      /\ pendings' = [pendings EXCEPT ![ReportBy[r]][ReportPart[r]] = pending]
      /\ reports' = [reports EXCEPT ![r].state = "written"]
      /\ UNCHANGED <<answers, now>>
  BY DEF ReportWritten
<1>2. \/ pending = Pending(r)
      \/ pending = None /\ Pending(r) = reports[r].failure
  BY DEF StillPending, Pending
<1>3. Pending(r) \in Null(Date) /\ reports[r].at \in Null(Nat)
  BY HealthShapes, ReportShapes DEF HealthInv, Pending, ReportRow, Null
<1>4. pending \in Null(Date)
  BY <1>2, <1>3 DEF Null
<1> HIDE DEF pending
<1>5. QED
  BY <1>1, <1>2, <1>3, <1>4, WriteEnds

LEMMA MissedStep == ASSUME HealthInv, NEW r \in Reports, ReportMissed(r) PROVE HealthInv'
<1> DEFINE date == [at |-> reports[r].at, by |-> r]
           pending == IF Pending(r) # None THEN Pending(r) ELSE date
           last == lasts[ReportBy[r]][ReportPart[r]]
<1>1. ReportBy[r] \in Processes /\ ReportPart[r] \in Parts
  BY ReportShapes
<1>2. /\ lasts \in [Processes -> [Parts -> Null(Nat)]]
      /\ pendings \in [Processes -> [Parts -> Null(Date)]]
      /\ reports[r] \in ReportRow
  BY DEF HealthInv, HealthTypeOK
<1>3. /\ reports[r].state = "writing"
      /\ health' = health \/ health' = [health EXCEPT ![ReportPart[r]] = Upserted(r)]
      /\ pendings' = [pendings EXCEPT ![ReportBy[r]][ReportPart[r]] = pending]
      /\ reports' = [reports EXCEPT ![r].state = "missed"]
      /\ UNCHANGED <<answers, now>> /\ lasts' = lasts
  BY <1>1, <1>2 DEF ReportMissed, Pending
<1>4. lasts' = [lasts EXCEPT ![ReportBy[r]][ReportPart[r]] = last]
  BY <1>1, <1>2, <1>3
<1>5. pending = Pending(r) \/ Pending(r) = None
  OBVIOUS
<1>6. pending \in Null(Date) /\ last \in Null(Nat)
  BY <1>1, <1>2 DEF Pending, ReportRow, Null, Date
<1> HIDE DEF pending, last
<1>7. QED
  BY <1>3, <1>4, <1>5, <1>6, WriteEnds

\* What is written stays written when a process ends, and what is not is lost.
LEMMA RestartStep == ASSUME HealthInv, NEW p \in Processes, Restart(p) PROVE HealthInv'
<1>1. HealthTypeOK /\ now \in Nat
  BY DEF HealthInv
<1>2. /\ reports \in [Reports -> ReportRow] /\ answers \in [Askers -> AnswerRow]
      /\ pendings \in [Processes -> [Parts -> Null(Date)]]
      /\ lasts \in [Processes -> [Parts -> Null(Nat)]]
      /\ \A o \in Reports : reports[o] \in ReportRow
  BY <1>1 DEF HealthTypeOK
<1> DEFINE nothing == [c \in Parts |-> None]
           gone(o) == ReportBy[o] = p /\ reports[o].state \in {"writing", "missed"}
           end(o) == [reports[o] EXCEPT !.state = "lost"]
<1>3. /\ pendings' = [pendings EXCEPT ![p] = nothing]
      /\ lasts' = [lasts EXCEPT ![p] = nothing]
      /\ reports' = [o \in Reports |-> IF gone(o) THEN end(o) ELSE reports[o]]
      /\ answers' = [q \in Askers |-> IF q = p /\ answers[p].state = "read"
                                      THEN NotAsked ELSE answers[q]]
      /\ UNCHANGED <<health, now>>
  BY DEF Restart
<1>4. /\ nothing \in [Parts -> Null(Date)] /\ nothing \in [Parts -> Null(Nat)]
  BY DEF Null
<1>5. \A o \in Reports : /\ end(o) \in ReportRow /\ end(o).state = "lost"
                         /\ end(o).at = reports[o].at
  BY <1>2 DEF ReportRow
<1>6. NotAsked \in AnswerRow
  BY DEF NotAsked, AnswerRow, NoRows, HealthRow, Null
<1> HIDE DEF nothing, end
<1>7. /\ pendings' \in [Processes -> [Parts -> Null(Date)]]
      /\ lasts' \in [Processes -> [Parts -> Null(Nat)]]
  BY <1>2, <1>3, <1>4
<1>8. reports' \in [Reports -> ReportRow] /\ answers' \in [Askers -> AnswerRow]
  BY <1>2, <1>3, <1>5, <1>6
<1>9. HealthTypeOK'
  BY <1>1, <1>3, <1>7, <1>8 DEF HealthTypeOK
<1>10. ASSUME NEW o \in Reports PROVE Reported(o)'
  <2>1. Reported(o) /\ reports[o].at \in Nat
    BY <1>2 DEF HealthInv, ReportRow
  <2>2. CASE gone(o)
    <3>1. reports'[o].state = "lost" /\ reports'[o].at = reports[o].at
      BY <1>3, <1>5, <2>2
    <3>2. QED
      BY <1>3, <2>1, <2>2, <3>1 DEF Reported
  <2>3. CASE ~gone(o)
    <3>1. reports'[o] = reports[o]
      BY <1>3, <2>3
    <3>2. CASE ReportBy[o] # p
      <4>1. Pending(o)' = Pending(o)
        BY <1>2, <1>3, <3>2, ReportShapes DEF Pending
      <4>2. QED
        BY <1>1, <1>3, <2>1, <3>1, <4>1, ReportStays DEF InTable, Shown, Remembered
    <3>3. CASE ReportBy[o] = p
      BY <1>3, <2>1, <2>3, <3>1, <3>3 DEF Reported, InTable, Shown
    <3>4. QED
      BY <3>2, <3>3
  <2>4. QED
    BY <2>2, <2>3
<1>11. ASSUME NEW q \in Askers PROVE Answered(q)'
  <2>1. CASE q = p /\ answers[p].state = "read"
    BY <1>3, <2>1 DEF Answered, NotAsked
  <2>2. CASE ~(q = p /\ answers[p].state = "read")
    <3>1. answers'[q] = answers[q]
      BY <1>3, <2>2
    <3>2. \A r \in Reports : reports[r].state = "written" => reports'[r] = reports[r]
      BY <1>3
    <3>3. QED
      BY <3>1, <3>2, AnswerStays
  <2>3. QED
    BY <2>1, <2>2
<1>12. QED
  BY <1>1, <1>3, <1>9, <1>10, <1>11 DEF HealthInv

\* A step of an answer alone.
LEMMA AnswerStep ==
  ASSUME HealthInv, NEW p \in Askers, NEW row \in AnswerRow,
         answers' = [answers EXCEPT ![p] = row],
         UNCHANGED <<health, pendings, lasts, reports, now>>, Answered(p)'
  PROVE  HealthInv'
<1>1. answers \in [Askers -> AnswerRow] /\ HealthTypeOK /\ now \in Nat
  BY DEF HealthInv, HealthTypeOK
<1>2. HealthTypeOK'
  BY <1>1 DEF HealthTypeOK
<1>3. ASSUME NEW o \in Reports PROVE Reported(o)'
  BY DEF HealthInv, Reported, InTable, Shown, Remembered, Pending
<1>4. ASSUME NEW q \in Askers PROVE Answered(q)'
  <2>1. CASE q # p
    BY <2>1, <1>1, AnswerStays
  <2>2. QED
    BY <2>1
<1>5. QED
  BY <1>1, <1>2, <1>3, <1>4 DEF HealthInv

LEMMA ReadStep == ASSUME HealthInv, NEW p \in Askers, StatusRead(p) PROVE HealthInv'
<1> DEFINE written == {r \in Reports : reports[r].state = "written" /\ ~reports[r].ok}
           row == [state |-> "read", rows |-> health, says |-> "", at |-> now, written |-> written]
<1>1. /\ answers' = [answers EXCEPT ![p] = row]
      /\ UNCHANGED <<health, pendings, lasts, reports, now>>
  BY DEF StatusRead
<1>2. row \in AnswerRow
  BY DEF AnswerRow, HealthInv, HealthTypeOK
<1>3. \A r \in written : /\ reports[r].state = "written" /\ ~reports[r].ok
                         /\ Shown(r, health[ReportPart[r]])
  BY DEF HealthInv, Reported, InTable
<1> HIDE DEF written
<1>4. row.state = "read" /\ row.rows = health /\ row.written = written
  OBVIOUS
<1> HIDE DEF row
<1>5. answers'[p] = row
  BY <1>1 DEF HealthInv, HealthTypeOK
<1>6. ASSUME NEW r \in written
      PROVE  /\ reports'[r].state = "written" /\ ~reports'[r].ok
             /\ Shown(r, answers[p].rows[ReportPart[r]])'
  BY <1>1, <1>3, <1>4, <1>5 DEF Shown
<1>7. Answered(p)'
  BY <1>4, <1>5, <1>6 DEF Answered
<1>8. QED
  BY <1>1, <1>2, <1>7, AnswerStep

LEMMA GiveStep == ASSUME HealthInv, NEW p \in Askers, StatusAnswer(p) PROVE HealthInv'
<1> DEFINE rows == answers[p].rows
<1>1. /\ answers[p] \in AnswerRow /\ answers \in [Askers -> AnswerRow] /\ now \in Nat
      /\ Answered(p)
  BY DEF HealthInv, HealthTypeOK
<1>2. PICK s \in {"OK", "DEGRADED", "UNKNOWN"} :
        /\ answers' = [answers EXCEPT ![p] = [@ EXCEPT !.state = "given", !.rows = NoRows,
                                                       !.says = s, !.at = now]]
        /\ s = "OK" => \A c \in Parts : ~Recent(rows[c].failure, FailureWindow)
  BY DEF StatusAnswer
<1> DEFINE row == [answers[p] EXCEPT !.state = "given", !.rows = NoRows, !.says = s, !.at = now]
<1>3. answers' = [answers EXCEPT ![p] = row] /\ answers'[p] = row
  BY <1>1, <1>2
<1>4. UNCHANGED <<health, pendings, lasts, reports, now>> /\ answers[p].state = "read"
  BY DEF StatusAnswer
<1>5. row \in AnswerRow
  BY <1>1 DEF AnswerRow, NoRows, HealthRow, Null
<1>6. /\ row.state = "given" /\ row.says = s /\ row.at = now
      /\ row.written = answers[p].written
  BY <1>1 DEF AnswerRow
<1>7. ASSUME NEW r \in answers[p].written, s = "OK"
      PROVE  now - reports[r].at >= FailureWindow
  <2>1. r \in Reports /\ rows \in [Parts -> HealthRow]
    BY <1>1 DEF AnswerRow
  <2>2. Shown(r, rows[ReportPart[r]]) /\ ReportPart[r] \in Parts
    BY <1>1, <1>4, <2>1, ReportShapes DEF Answered
  <2>3. rows[ReportPart[r]].failure \in Nat /\ reports[r].at \in Nat
    BY <2>1, <2>2, HealthShapes DEF HealthInv, HealthRow, ReportRow, Shown, Null
  <2>4. QED
    BY <1>1, <1>2, <1>7, <2>2, <2>3, ReportShapes DEF Shown, Recent
<1> HIDE DEF row
<1>8. Answered(p)'
  BY <1>1, <1>3, <1>4, <1>6, <1>7 DEF Answered
<1>9. QED
  BY <1>3, <1>4, <1>5, <1>8, AnswerStep

LEMMA HealthStays ==
  ASSUME HealthInv, UNCHANGED healthVars, now' \in Nat, now <= now' PROVE HealthInv'
<1>1. HealthTypeOK' /\ now \in Nat
  BY DEF HealthInv, HealthTypeOK, healthVars
<1>2. ASSUME NEW r \in Reports PROVE Reported(r)'
  <2>1. reports[r].at \in Nat /\ Reported(r)
    BY HealthShapes DEF HealthInv, ReportRow
  <2>2. QED
    BY <1>1, <2>1, ReportStays DEF healthVars, InTable, Shown, Remembered, Pending
<1>3. ASSUME NEW p \in Askers PROVE Answered(p)'
  BY AnswerStays DEF healthVars
<1>4. QED
  BY <1>1, <1>2, <1>3 DEF HealthInv

LEMMA HealthStep == ASSUME HealthInv, [HealthNext]_<<healthVars, now>> PROVE HealthInv'
<1>1. CASE HealthTick \/ UNCHANGED <<healthVars, now>>
  <2>1. now \in Nat
    BY DEF HealthInv
  <2>2. UNCHANGED healthVars /\ now' \in {now, now + 1}
    BY <1>1 DEF HealthTick, Later
  <2>3. QED
    BY <2>1, <2>2, HealthStays
<1>2. CASE \E p \in Restarting : Restart(p)
  BY <1>2, RestartStep, HealthAssumption
<1>3. QED
  BY <1>1, <1>2, ReportStep, WrittenStep, MissedStep, ReadStep, GiveStep DEF HealthNext

\* A failure of a process is not forgotten before it is written, and no process says
\* OK to a manager while it is recent in the rows (security-events/health).
THEOREM FailuresAreSeen == HealthSpec => []FailuresShow
<1>1. HealthInv => FailuresShow
  <2> SUFFICES ASSUME HealthInv PROVE FailureKept /\ WrittenFailureShows
    BY DEF FailuresShow
  <2>1. FailureKept
    BY DEF FailureKept, HealthInv, Reported, InTable, Shown, Remembered, Pending
  <2>2. WrittenFailureShows
    BY DEF WrittenFailureShows, HealthInv, Answered
  <2>3. QED
    BY <2>1, <2>2
<1>2. QED
  BY InitHealth, HealthStep, <1>1, PTL DEF HealthSpec

(***************************************************************************)
(* The list of security events.  Before(e, f) is the order of the list.    *)
(***************************************************************************)
Before(e, f) == Newer(e, occurred[f], f)
Dated == occurred \in [LogEvents -> Nat]
Descends(s) == \A i, j \in DOMAIN s : i < j => Before(s[i], s[j])

LEMMA ListOrder ==
  ASSUME Dated, NEW e \in LogEvents, NEW f \in LogEvents
  PROVE  /\ Before(e, f) \/ Before(f, e) \/ e = f
         /\ ~(Before(e, f) /\ Before(f, e)) /\ ~Before(e, e)
         /\ Before(e, f) <=> Older(f, occurred[e], e)
         /\ \A g \in LogEvents : Before(e, f) /\ Before(f, g) => Before(e, g)
<1>1. \A x \in LogEvents : occurred[x] \in Nat /\ Rank[x] \in Nat
  BY LogAssumption DEF Dated
<1>2. Rank[e] = Rank[f] => e = f
  BY LogAssumption
<1>3. QED
  BY <1>1, <1>2 DEF Before, Newer, Older

\* How many rows of S are before e.
Ahead(e, S) == {f \in S : Newer(f, occurred[e], e)}
Place(e, S) == Cardinality(Ahead(e, S))

LEMMA Places ==
  ASSUME Dated, NEW S \in SUBSET LogEvents
  PROVE  /\ IsFiniteSet(S) /\ Cardinality(S) \in Nat
         /\ \A e \in S : Place(e, S) \in 0..(Cardinality(S) - 1)
         /\ \A e, f \in S : Before(e, f) => Place(e, S) < Place(f, S)
<1>1. IsFiniteSet(S) /\ Cardinality(S) \in Nat
  BY LogAssumption, FS_Subset, FS_CardinalityType
<1>2. ASSUME NEW e \in S
      PROVE  /\ IsFiniteSet(Ahead(e, S)) /\ Place(e, S) \in Nat
             /\ Place(e, S) < Cardinality(S)
  <2>1. Ahead(e, S) \in SUBSET S /\ e \notin Ahead(e, S)
    BY ListOrder DEF Ahead, Before
  <2>2. /\ IsFiniteSet(Ahead(e, S)) /\ Cardinality(Ahead(e, S)) \in Nat
        /\ Cardinality(Ahead(e, S)) <= Cardinality(S)
        /\ Cardinality(S) # Cardinality(Ahead(e, S))
    BY <1>1, <2>1, FS_Subset, FS_CardinalityType
  <2>3. QED
    BY <1>1, <2>2 DEF Place
<1>3. ASSUME NEW e \in S, NEW f \in S, Before(e, f)
      PROVE  Place(e, S) < Place(f, S)
  <2>1. Ahead(e, S) \in SUBSET Ahead(f, S)
    BY <1>3, ListOrder DEF Ahead, Before
  <2>2. e \in Ahead(f, S) /\ e \notin Ahead(e, S)
    BY <1>3, ListOrder DEF Ahead, Before
  <2>3. /\ Cardinality(Ahead(e, S)) <= Cardinality(Ahead(f, S))
        /\ Cardinality(Ahead(e, S)) # Cardinality(Ahead(f, S))
    BY <1>2, <2>1, <2>2, FS_Subset
  <2>4. QED
    BY <1>2, <2>3 DEF Place
<1>4. QED
  BY <1>1, <1>2, <1>3

LEMMA EveryPlace ==
  ASSUME Dated, NEW S \in SUBSET LogEvents, NEW i \in 1..Cardinality(S)
  PROVE  \E e \in S : Place(e, S) = i - 1
<1> DEFINE n == Cardinality(S)
           g == [e \in S |-> Place(e, S) + 1]
<1>1. n \in Nat /\ IsFiniteSet(S)
  BY Places
<1>2. g \in [S -> 1..n]
  BY <1>1, Places
<1>3. \A e, f \in S : g[e] = g[f] => e = f
  <2> SUFFICES ASSUME NEW e \in S, NEW f \in S, e # f PROVE g[e] # g[f]
    OBVIOUS
  <2>1. Place(e, S) \in Nat /\ Place(f, S) \in Nat
    BY Places
  <2>2. Place(e, S) # Place(f, S)
    BY <2>1, Places, ListOrder
  <2>3. QED
    BY <2>1, <2>2
<1>4. g \in Injection(S, 1..n)
  BY <1>2, <1>3 DEF Injection, IsInjective
<1>5. IsFiniteSet(1..n) /\ Cardinality(1..n) = n
  BY <1>1, FS_Interval
<1>6. g \in Surjection(S, 1..n)
  BY <1>1, <1>4, <1>5, FS_Injection
<1>7. PICK e \in S : g[e] = i
  BY <1>6 DEF Surjection
<1>8. Place(e, S) \in Nat /\ Place(e, S) + 1 = i
  BY <1>7, Places
<1>9. QED
  BY <1>8

\* The list of a set: each row of it once, in order.
Lists(s, S) == /\ s \in Seq(LogEvents) /\ Len(s) = Cardinality(S)
               /\ Descends(s) /\ ToSet(s) = S

LEMMA Listed ==
  ASSUME Dated, NEW S \in SUBSET LogEvents
  PROVE  Lists(NewestFirst(S), S)
<1> DEFINE n == Cardinality(S)
           s == NewestFirst(S)
<1>1. n \in Nat
  BY Places
<1>2. s = [i \in 1..n |-> CHOOSE e \in S : Place(e, S) = i - 1]
  BY DEF NewestFirst, Place, Ahead
<1>3. \A i \in 1..n : s[i] \in S /\ Place(s[i], S) = i - 1
  BY <1>2, EveryPlace
<1>4. s \in [1..n -> LogEvents]
  BY <1>2, <1>3
<1> HIDE DEF s, n
<1>5. s \in Seq(LogEvents) /\ Len(s) = n /\ DOMAIN s = 1..n
  BY <1>1, <1>4
<1>6. Descends(s)
  <2> SUFFICES ASSUME NEW i \in 1..n, NEW j \in 1..n, i < j PROVE Before(s[i], s[j])
    BY <1>5 DEF Descends
  <2>1. s[i] \in S /\ s[j] \in S /\ Place(s[i], S) = i - 1 /\ Place(s[j], S) = j - 1
    BY <1>3
  <2>2. s[i] # s[j] /\ ~(Place(s[j], S) < Place(s[i], S))
    BY <1>1, <2>1
  <2>3. ~Before(s[j], s[i])
    BY <2>1, <2>2, Places
  <2>4. QED
    BY <2>1, <2>2, <2>3, ListOrder
<1>7. ASSUME NEW e \in S PROVE e \in ToSet(s)
  <2> DEFINE i == Place(e, S) + 1
  <2>1. i \in 1..n /\ Place(e, S) = i - 1
    BY <1>1, Places DEF n
  <2>2. s[i] \in S /\ Place(s[i], S) = Place(e, S)
    BY <1>3, <2>1
  <2>3. ~Before(s[i], e) /\ ~Before(e, s[i])
    BY <2>1, <2>2, Places
  <2>4. s[i] = e
    BY <2>2, <2>3, ListOrder
  <2>5. QED
    BY <1>5, <2>1, <2>4 DEF ToSet
<1>8. ToSet(s) = S
  BY <1>3, <1>5, <1>7 DEF ToSet
<1>9. QED
  BY <1>5, <1>6, <1>8 DEF Lists, s, n

\* A list has its rows at one place each.
LEMMA OncePerRow ==
  ASSUME Dated, NEW s \in Seq(LogEvents), Descends(s)
  PROVE  IsInjective(s) /\ Cardinality(ToSet(s)) = Len(s)
<1>1. DOMAIN s = 1..Len(s) /\ Len(s) \in Nat /\ \A i \in DOMAIN s : s[i] \in LogEvents
  OBVIOUS
<1>2. \A i, j \in DOMAIN s : s[i] = s[j] => i = j
  <2> SUFFICES ASSUME NEW i \in DOMAIN s, NEW j \in DOMAIN s, i # j PROVE s[i] # s[j]
    OBVIOUS
  <2>1. i < j \/ j < i
    BY <1>1
  <2>2. Before(s[i], s[j]) \/ Before(s[j], s[i])
    BY <2>1 DEF Descends
  <2>3. QED
    BY <1>1, <2>2, ListOrder
<1>3. IsInjective(s)
  BY <1>2 DEF IsInjective
<1>4. s \in Bijection(1..Len(s), ToSet(s))
  BY <1>1, <1>2 DEF Bijection, Injection, Surjection, IsInjective, ToSet
<1>5. ExistsBijection(1..Len(s), ToSet(s))
  BY <1>4 DEF ExistsBijection
<1>6. IsFiniteSet(1..Len(s)) /\ Cardinality(1..Len(s)) = Len(s)
  BY <1>1, FS_Interval
<1>7. QED
  BY <1>3, <1>5, <1>6, FS_Bijection

\* The first rows of a list, and the last.
Part(t, s, k) ==
  /\ t \in Seq(LogEvents) /\ Len(t) = k /\ Descends(t)
  /\ ToSet(t) \subseteq ToSet(s) /\ (k = Len(s) => ToSet(t) = ToSet(s))

LEMMA FirstRows ==
  ASSUME Dated, NEW s \in Seq(LogEvents), Descends(s), NEW k \in 0..Len(s)
  PROVE  LET t == SubSeq(s, 1, k)
         IN /\ Part(t, s, k)
            /\ \A e \in ToSet(t), f \in ToSet(s) \ ToSet(t) : Before(e, f)
<1> DEFINE t == SubSeq(s, 1, k)
<1>1. /\ DOMAIN s = 1..Len(s) /\ Len(s) \in Nat /\ \A i \in DOMAIN s : s[i] \in LogEvents
      /\ k \in Nat /\ k <= Len(s)
  OBVIOUS
<1>2. t \in Seq(LogEvents) /\ Len(t) = k /\ \A i \in 1..k : t[i] = s[i]
  BY <1>1, SubSeqProperties
<1> HIDE DEF t
<1>3. DOMAIN t = 1..k
  BY <1>2
<1>4. Descends(t)
  BY <1>1, <1>2, <1>3 DEF Descends
<1>5. ASSUME NEW e \in ToSet(t), NEW f \in ToSet(s) \ ToSet(t) PROVE Before(e, f)
  <2>1. PICK i \in 1..k : e = s[i]
    BY <1>2, <1>3 DEF ToSet
  <2>2. PICK j \in 1..Len(s) : f = s[j]
    BY <1>1 DEF ToSet
  <2>3. j \notin 1..k
    BY <1>2, <1>3, <2>2 DEF ToSet
  <2>4. QED
    BY <1>1, <2>1, <2>2, <2>3 DEF Descends
<1>6. ToSet(t) \subseteq ToSet(s) /\ (k = Len(s) => ToSet(t) = ToSet(s))
  <2>1. \A i \in DOMAIN t : i \in DOMAIN s /\ t[i] = s[i]
    BY <1>1, <1>2, <1>3
  <2>2. k = Len(s) => \A i \in DOMAIN s : i \in DOMAIN t
    BY <1>1, <1>3
  <2>3. QED
    BY <2>1, <2>2 DEF ToSet
<1>7. QED
  BY <1>2, <1>4, <1>5, <1>6 DEF Part, t

LEMMA LastRows ==
  ASSUME Dated, NEW s \in Seq(LogEvents), Descends(s), NEW k \in 0..Len(s)
  PROVE  LET t == Reverse(SubSeq(Reverse(s), 1, k))
         IN /\ Part(t, s, k)
            /\ \A e \in ToSet(t), f \in ToSet(s) \ ToSet(t) : Before(f, e)
<1> DEFINE n == Len(s)
           r == Reverse(s)
           u == SubSeq(r, 1, k)
           t == Reverse(u)
<1>1. /\ DOMAIN s = 1..n /\ n \in Nat /\ \A i \in DOMAIN s : s[i] \in LogEvents
      /\ k \in Nat /\ k <= n
  OBVIOUS
<1>2. r = [i \in 1..n |-> s[n - i + 1]]
  BY DEF Reverse
<1>3. \A i \in 1..n : r[i] = s[n - i + 1] /\ n - i + 1 \in 1..n
  BY <1>1, <1>2
<1>4. u \in Seq(LogEvents) /\ Len(u) = k /\ \A i \in 1..k : u[i] = r[i]
  <2>1. \A i \in 1..k : r[i] \in LogEvents
    BY <1>1, <1>3
  <2> HIDE DEF r
  <2>2. QED
    BY <1>1, <2>1, SubSeqProperties
<1> HIDE DEF r, u
<1>5. t = [i \in 1..k |-> u[k - i + 1]]
  BY <1>4 DEF Reverse
<1>6. \A i \in 1..k : t[i] = s[n - k + i] /\ n - k + i \in 1..n /\ t[i] \in LogEvents
  <2> TAKE i \in 1..k
  <2>1. PICK m \in 1..k : m = k - i + 1 /\ m \in 1..n /\ n - m + 1 = n - k + i
    BY <1>1
  <2>2. t[i] = u[m] /\ u[m] = r[m] /\ r[m] = s[n - m + 1]
    BY <1>3, <1>4, <1>5, <2>1
  <2>3. n - k + i \in 1..n
    BY <1>1
  <2>4. QED
    BY <1>1, <2>1, <2>2, <2>3
<1>7. t \in Seq(LogEvents) /\ Len(t) = k /\ DOMAIN t = 1..k
  <2>1. t \in [1..k -> LogEvents]
    BY <1>5, <1>6
  <2> HIDE DEF t
  <2>2. QED
    BY <1>1, <2>1
<1> HIDE DEF t
<1>8. Descends(t)
  <2> SUFFICES ASSUME NEW i \in 1..k, NEW j \in 1..k, i < j PROVE Before(t[i], t[j])
    BY <1>7 DEF Descends
  <2>1. n - k + i < n - k + j
    BY <1>1
  <2>2. QED
    BY <1>1, <1>6, <2>1 DEF Descends
<1>9. ASSUME NEW e \in ToSet(t), NEW f \in ToSet(s) \ ToSet(t) PROVE Before(f, e)
  <2>1. PICK i \in 1..k : e = s[n - k + i] /\ n - k + i \in 1..n
    BY <1>6, <1>7 DEF ToSet
  <2>2. PICK j \in 1..n : f = s[j]
    BY <1>1 DEF ToSet
  <2>3. j <= n - k
    <3> SUFFICES ASSUME j > n - k PROVE FALSE
      BY <1>1
    <3>1. j - (n - k) \in 1..k /\ n - k + (j - (n - k)) = j
      BY <1>1
    <3>2. t[j - (n - k)] = s[j]
      BY <1>6, <3>1
    <3>3. QED
      BY <1>7, <2>2, <3>1, <3>2 DEF ToSet
  <2>4. j < n - k + i
    BY <1>1, <2>3
  <2>5. QED
    BY <1>1, <2>1, <2>2, <2>4 DEF Descends
<1>10. ToSet(t) \subseteq ToSet(s)
  <2>1. \A i \in DOMAIN t : n - k + i \in DOMAIN s /\ t[i] = s[n - k + i]
    BY <1>1, <1>6, <1>7
  <2>2. QED
    BY <2>1 DEF ToSet
<1>11. k = n => ToSet(t) = ToSet(s)
  <2> SUFFICES ASSUME k = n PROVE ToSet(s) \subseteq ToSet(t)
    BY <1>10
  <2>1. \A i \in 1..n : n - k + i = i
    BY <1>1
  <2>2. \A i \in 1..n : t[i] = s[i]
    BY <1>6, <2>1
  <2>3. QED
    BY <1>1, <1>7, <2>2 DEF ToSet
<1>12. QED
  BY <1>7, <1>8, <1>9, <1>10, <1>11 DEF Part, t, u, r

\* What the query of a page is about, and the pages made from its answer.
Asked(c) ==
  IF c = None THEN Visible
  ELSE IF c.direction = "older" THEN {e \in Visible : Older(e, c.at, c.of)}
  ELSE {e \in Visible : Newer(e, c.at, c.of)}
LastOf(s) == s[Len(s)]
Cursors(p) ==
  /\ p.next # None => /\ p.items # <<>> /\ p.next = CursorAt(LastOf(p.items), "older")
                      /\ p.next \in Cursor
  /\ p.previous # None => /\ p.items # <<>> /\ p.previous = CursorAt(p.items[1], "newer")
                          /\ p.previous \in Cursor

LEMMA CursorShape ==
  ASSUME Dated, now \in Nat, NEW e \in LogEvents, NEW d \in {"older", "newer"}
  PROVE  CursorAt(e, d) \in Cursor /\ CursorAt(e, d) # None
<1>1. occurred[e] \in Nat /\ now + CursorLife \in Nat
  BY LogAssumption DEF Dated
<1>2. CursorAt(e, d) \in Cursor
  BY <1>1 DEF CursorAt, Cursor
<1>3. QED
  BY <1>2, CursorAssumption

LEMMA PageDown ==
  ASSUME Dated, now \in Nat, NEW c, c = None \/ c.direction = "older"
  PROVE  LET p == Page(c)
         IN /\ \E k \in Nat : Part(p.items, NewestFirst(Asked(c)), k)
            /\ ToSet(p.items) \subseteq Asked(c)
            /\ p.next = None => ToSet(p.items) = Asked(c)
            /\ \A e \in ToSet(p.items), f \in Asked(c) \ ToSet(p.items) : Before(e, f)
            /\ Cursors(p)
<1> DEFINE s == NewestFirst(Asked(c))
           k == IF Len(s) > PageSize THEN PageSize ELSE Len(s)
           t == SubSeq(s, 1, k)
           p == Page(c)
<1>1. Asked(c) \in SUBSET LogEvents
  BY DEF Asked, Visible
<1>2. Lists(s, Asked(c))
  BY <1>1, Listed
<1>3. Len(s) \in Nat /\ PageSize \in Nat \ {0}
  BY <1>2, LogAssumption DEF Lists
<1>4. k \in 0..Len(s)
  BY <1>3
<1>5. Found(c) = s
  BY DEF Found, Asked
<1> HIDE DEF s
<1>6. Part(t, s, k) /\ \A e \in ToSet(t), f \in ToSet(s) \ ToSet(t) : Before(e, f)
  BY <1>2, <1>4, FirstRows DEF Lists
<1> DEFINE last == CursorAt(LastOf(t), "older")
           first == CursorAt(t[1], "newer")
           down == IF Len(s) > PageSize /\ t # <<>> THEN last ELSE None
           up == IF c # None /\ t # <<>> THEN first ELSE None
<1>7. p = [items |-> t, next |-> down, previous |-> up]
  <2>1. ~(c # None /\ c.direction = "newer")
    OBVIOUS
  <2>2. QED
    BY <1>5, <2>1 DEF Page, LastOf
<1> HIDE DEF t, p
<1>8. p.items = t /\ p.next = down /\ p.previous = up
  BY <1>7
<1>9. t # <<>> => last \in Cursor /\ last # None /\ first \in Cursor /\ first # None
  <2> SUFFICES ASSUME t # <<>> PROVE t[1] \in LogEvents /\ LastOf(t) \in LogEvents
    BY CursorShape
  <2>1. t \in Seq(LogEvents) /\ Len(t) \in Nat /\ Len(t) # 0
    BY <1>6 DEF Part
  <2>2. QED
    BY <2>1 DEF LastOf
<1>10. Cursors(p)
  BY <1>8, <1>9 DEF Cursors
<1>11. p.next = None => ToSet(t) = ToSet(s)
  <2> SUFFICES ASSUME p.next = None PROVE k = Len(s)
    BY <1>6 DEF Part
  <2>1. CASE t = <<>>
    <3>1. k = 0
      BY <1>6, <2>1 DEF Part
    <3>2. QED
      BY <1>3, <3>1
  <2>2. CASE t # <<>>
    BY <1>8, <1>9, <2>2
  <2>3. QED
    BY <2>1, <2>2
<1>12. ToSet(s) = Asked(c) /\ ToSet(t) \subseteq Asked(c)
  BY <1>2, <1>6 DEF Lists, Part
<1>13. k \in Nat /\ Part(p.items, s, k)
  BY <1>3, <1>6, <1>8
<1>14. QED
  BY <1>6, <1>8, <1>10, <1>11, <1>12, <1>13 DEF p, s

LEMMA PageUp ==
  ASSUME Dated, now \in Nat, NEW c \in Cursor, c.direction = "newer"
  PROVE  LET p == Page(c)
         IN /\ \E k \in Nat : Part(p.items, NewestFirst(Asked(c)), k)
            /\ ToSet(p.items) \subseteq Asked(c)
            /\ Cardinality(ToSet(p.items)) =
                 IF Cardinality(Asked(c)) > PageSize THEN PageSize ELSE Cardinality(Asked(c))
            /\ \A e \in ToSet(p.items), f \in Asked(c) \ ToSet(p.items) : Before(f, e)
            /\ Cursors(p)
<1> DEFINE s == NewestFirst(Asked(c))
           k == IF Len(s) > PageSize THEN PageSize ELSE Len(s)
           t == Reverse(SubSeq(Reverse(s), 1, k))
           p == Page(c)
<1>1. Asked(c) \in SUBSET LogEvents
  BY DEF Asked, Visible
<1>2. Lists(s, Asked(c))
  BY <1>1, Listed
<1>3. Len(s) \in Nat /\ PageSize \in Nat \ {0} /\ c # None /\ Len(Reverse(s)) = Len(s)
  BY <1>2, LogAssumption, CursorAssumption DEF Lists, Reverse
<1>4. k \in 0..Len(s)
  BY <1>3
<1>5. Found(c) = Reverse(s)
  BY <1>3 DEF Found, Asked
<1> HIDE DEF s
<1>6. Part(t, s, k) /\ \A e \in ToSet(t), f \in ToSet(s) \ ToSet(t) : Before(f, e)
  BY <1>2, <1>4, LastRows DEF Lists
<1> DEFINE last == CursorAt(LastOf(t), "older")
           first == CursorAt(t[1], "newer")
           down == IF t # <<>> THEN last ELSE None
           up == IF Len(s) > PageSize /\ t # <<>> THEN first ELSE None
<1>7. p = [items |-> t, next |-> down, previous |-> up]
  BY <1>3, <1>5 DEF Page, LastOf
<1> HIDE DEF t, p
<1>8. p.items = t /\ p.next = down /\ p.previous = up
  BY <1>7
<1>9. t # <<>> => last \in Cursor /\ last # None /\ first \in Cursor /\ first # None
  <2> SUFFICES ASSUME t # <<>> PROVE t[1] \in LogEvents /\ LastOf(t) \in LogEvents
    BY CursorShape
  <2>1. t \in Seq(LogEvents) /\ Len(t) \in Nat /\ Len(t) # 0
    BY <1>6 DEF Part
  <2>2. QED
    BY <2>1 DEF LastOf
<1>10. Cursors(p)
  BY <1>8, <1>9 DEF Cursors
<1>11. Cardinality(ToSet(t)) = k /\ Len(s) = Cardinality(Asked(c))
  BY <1>2, <1>6, OncePerRow DEF Lists, Part
<1>12. ToSet(s) = Asked(c) /\ ToSet(t) \subseteq Asked(c)
  BY <1>2, <1>6 DEF Lists, Part
<1>13. k \in Nat /\ Part(p.items, s, k)
  BY <1>3, <1>6, <1>8
<1>14. QED
  BY <1>6, <1>8, <1>10, <1>11, <1>12, <1>13 DEF p, s

(***************************************************************************)
(* A walk.  The rows seen are in order, and what is due and not among them *)
(* comes after the last of them, which the next cursor names.              *)
(***************************************************************************)
Recorded == {e \in LogEvents : logRows[e] \in {"there", "pruned"}}
Names(c, e, d) == /\ c.direction = d /\ c.of = e /\ c.at = occurred[e]
                  /\ e \in Recorded
NextOK ==
  LET c == walk.page.next
  IN IF c = None THEN walk.due \subseteq ToSet(walk.seen)
     ELSE /\ walk.seen # <<>> /\ Names(c, LastOf(walk.seen), "older")
          /\ \A e \in walk.due : e \in ToSet(walk.seen) \/ Before(LastOf(walk.seen), e)
PreviousOK ==
  LET c == walk.page.previous IN c # None => \E e \in LogEvents : Names(c, e, "newer")

WalkFields == {"state", "asked", "page", "seen", "due", "within"}
LogInv ==
  /\ LogTypeOK /\ now \in Nat
  /\ walk = [f \in WalkFields |-> walk[f]]
  /\ Descends(walk.seen) /\ ToSet(walk.seen) \subseteq Recorded
  /\ walk.due \subseteq Visible /\ walk.within \subseteq Recorded
  /\ walk.state = "walking" => NextOK /\ PreviousOK
  /\ PageBackAdjoins

LEMMA InitLog == LogInit /\ now = 0 => LogInv
<1> SUFFICES ASSUME LogInit, now = 0 PROVE LogInv
  OBVIOUS
<1>1. /\ walk.state = "new" /\ walk.asked = None /\ walk.seen = <<>>
      /\ walk.due = {} /\ walk.within = {}
      /\ walk.page.items = <<>> /\ walk.page.next = None /\ walk.page.previous = None
      /\ walk = [f \in WalkFields |-> walk[f]]
  BY DEF LogInit, NoPage, WalkFields
<1>2. LogTypeOK
  <2>1. /\ logRows \in [LogEvents -> {"new", "open", "there", "pruned"}]
        /\ occurred \in [LogEvents -> Nat]
    BY DEF LogInit
  <2>2. QED
    BY <1>1, <2>1, EmptySeq DEF LogTypeOK, Null
<1>3. Descends(walk.seen) /\ ToSet(walk.seen) = {}
  BY <1>1 DEF Descends, ToSet
<1>4. QED
  BY <1>1, <1>2, <1>3 DEF LogInv, PageBackAdjoins

\* Rows come and go beside the walk, and none that has been seen changes its place.
LEMMA WalkStands ==
  ASSUME LogInv, now' \in Nat,
         logRows' \in [LogEvents -> {"new", "open", "there", "pruned"}],
         occurred' \in [LogEvents -> Nat],
         Recorded \subseteq Recorded', \A e \in Recorded : occurred'[e] = occurred[e],
         NEW due \in SUBSET walk.due, due \subseteq Visible',
         walk' = [walk EXCEPT !.due = due]
  PROVE  LogInv'
<1>1. /\ \A f \in WalkFields \ {"due"} : walk'[f] = walk[f]
      /\ walk'.due = due
      /\ walk' = [f \in WalkFields |-> walk'[f]]
  BY DEF LogInv, WalkFields
<1>2. /\ walk'.state = walk.state /\ walk'.asked = walk.asked /\ walk'.page = walk.page
      /\ walk'.seen = walk.seen /\ walk'.within = walk.within
  BY <1>1 DEF WalkFields
<1>3. LogTypeOK'
  BY <1>1, <1>2 DEF LogInv, LogTypeOK
<1>4. \A e, f \in Recorded : Before(e, f)' <=> Before(e, f)
  BY DEF Before, Newer
<1>5. /\ Recorded \subseteq LogEvents /\ walk.due \subseteq Recorded
      /\ ToSet(walk.seen) \subseteq Recorded /\ \A i \in DOMAIN walk.seen : walk.seen[i] \in Recorded
  BY DEF LogInv, Recorded, Visible, ToSet
<1>6. Descends(walk.seen)' /\ ToSet(walk'.seen) \subseteq Recorded'
  BY <1>2, <1>4, <1>5 DEF LogInv, Descends
<1>7. \A c, e, d : e \in Recorded /\ Names(c, e, d) => Names(c, e, d)'
  BY DEF Names
<1>8. walk.state = "walking" => NextOK' /\ PreviousOK'
  <2> SUFFICES ASSUME walk.state = "walking" PROVE NextOK' /\ PreviousOK'
    OBVIOUS
  <2>1. NextOK /\ PreviousOK
    BY DEF LogInv
  <2>2. PreviousOK'
    BY <1>2, <1>7, <2>1 DEF PreviousOK, Names
  <2>3. CASE walk.page.next = None
    BY <1>1, <1>2, <2>1, <2>2, <2>3 DEF NextOK
  <2>4. CASE walk.page.next # None
    <3>1. LastOf(walk.seen) \in Recorded
      BY <2>1, <2>4 DEF NextOK, Names
    <3>2. \A e \in due : e \in ToSet(walk.seen) \/ Before(LastOf(walk.seen), e)'
      BY <1>4, <1>5, <2>1, <2>4, <3>1 DEF NextOK
    <3>3. NextOK'
      BY <1>1, <1>2, <1>7, <2>1, <2>4, <3>1, <3>2 DEF NextOK, LastOf
    <3>4. QED
      BY <2>2, <3>3
  <2>5. QED
    BY <2>3, <2>4
<1>9. PageBackAdjoins'
  <2> SUFFICES ASSUME walk.state = "ended" PROVE PageBackAdjoins'
    BY <1>2 DEF PageBackAdjoins
  <2>1. /\ PageBackAdjoins /\ walk.within \subseteq Recorded
    BY DEF LogInv
  <2>2. /\ ToSet(walk.page.items) \subseteq Recorded
        /\ \A i \in DOMAIN walk.page.items : walk.page.items[i] \in Recorded
    BY <2>1 DEF PageBackAdjoins, ToSet
  <2>3. \A e, f \in Recorded : Older(e, occurred[f], f)' <=> Older(e, occurred[f], f)
    BY DEF Older
  <2>4. \A e, f \in Recorded : Newer(e, occurred[f], f)' <=> Newer(e, occurred[f], f)
    BY DEF Newer
  <2>5. QED
    BY <1>2, <2>1, <2>2, <2>3, <2>4 DEF PageBackAdjoins
<1>10. walk'.due \subseteq Visible' /\ walk'.within \subseteq Recorded'
  BY <1>1, <1>2 DEF LogInv
<1>11. QED
  BY <1>1, <1>2, <1>3, <1>6, <1>8, <1>9, <1>10 DEF LogInv

\* A page asked for leaves the rows as they are.
LEMMA PageStep ==
  ASSUME LogInv, UNCHANGED <<logRows, occurred, now>>
  PROVE  /\ \A s : Descends(s) <=> Descends(s)'
         /\ Recorded' = Recorded /\ Visible' = Visible /\ Dated
         /\ \A e, f : Before(e, f)' <=> Before(e, f)
         /\ \A c, e, d : Names(c, e, d) <=> Names(c, e, d)'
         /\ \A c : Asked(c) \subseteq Visible
         /\ Visible \subseteq Recorded /\ Recorded \subseteq LogEvents
<1>1. /\ Recorded' = Recorded /\ Visible' = Visible /\ Dated
      /\ \A c : Asked(c) \subseteq Visible
      /\ Visible \subseteq Recorded /\ Recorded \subseteq LogEvents
  BY DEF Recorded, Visible, Dated, LogInv, LogTypeOK, Asked
<1>2. \A e, f : Before(e, f)' <=> Before(e, f)
  BY DEF Before, Newer
<1>3. \A s : Descends(s) <=> Descends(s)'
  BY <1>2 DEF Descends
<1>4. \A c, e, d : Names(c, e, d) <=> Names(c, e, d)'
  BY <1>1 DEF Names
<1>5. QED
  BY <1>1, <1>2, <1>3, <1>4

\* The cursors of a page name rows of it.
LEMMA CursorNames ==
  ASSUME LogInv, NEW c, NEW k \in Nat, Part(Page(c).items, NewestFirst(Asked(c)), k),
         ToSet(Page(c).items) \subseteq Asked(c), Cursors(Page(c))
  PROVE  LET p == Page(c)
         IN /\ p.next \in Null(Cursor) /\ p.previous \in Null(Cursor)
            /\ p.next # None => Names(p.next, LastOf(p.items), "older") /\ p.items # <<>>
            /\ p.previous # None => Names(p.previous, p.items[1], "newer")
<1> DEFINE p == Page(c)
<1>1. p.items \in Seq(LogEvents)
  BY DEF Part
<1>2. Asked(c) \subseteq Recorded
  BY DEF Asked, Visible, Recorded
<1> HIDE DEF p
<1>3. p.items # <<>> => LastOf(p.items) \in Recorded /\ p.items[1] \in Recorded
  <2> SUFFICES ASSUME p.items # <<>>
               PROVE  LastOf(p.items) \in ToSet(p.items) /\ p.items[1] \in ToSet(p.items)
    BY <1>2 DEF p
  <2>1. Len(p.items) \in Nat \ {0} /\ DOMAIN p.items = 1..Len(p.items)
    BY <1>1, EmptySeq
  <2>2. QED
    BY <2>1 DEF LastOf, ToSet
<1>4. Cursors(p)
  BY DEF p
<1>5. QED
  BY <1>3, <1>4 DEF p, Cursors, Names, CursorAt, Null

LEMMA FirstPageKeeps ==
  ASSUME LogInv, FirstPage
  PROVE  LogInv'
<1>0. PICK p : p = Page(None)
  OBVIOUS
<1>1. UNCHANGED <<logRows, occurred, now>>
  BY DEF FirstPage
<1> USE PageStep
<1>2. /\ now \in Nat /\ Dated /\ Asked(None) = Visible
  BY <1>1 DEF LogInv, Asked
<1>3. PICK k \in Nat : Part(p.items, NewestFirst(Asked(None)), k)
  BY <1>0, <1>2, PageDown
<1>4. /\ ToSet(p.items) \subseteq Visible
      /\ p.next = None => ToSet(p.items) = Visible
      /\ \A e \in ToSet(p.items), f \in Visible \ ToSet(p.items) : Before(e, f)
      /\ Cursors(p)
  BY <1>0, <1>2, PageDown
<1>5. /\ p.next \in Null(Cursor) /\ p.previous \in Null(Cursor)
      /\ p.next # None => Names(p.next, LastOf(p.items), "older") /\ p.items # <<>>
      /\ p.previous # None => Names(p.previous, p.items[1], "newer")
  BY <1>0, <1>2, <1>3, <1>4, CursorNames
<1>6. p.items \in Seq(LogEvents) /\ Descends(p.items)
  BY <1>3 DEF Part
<1>7. walk' = [state |-> "walking", asked |-> None, page |-> p,
               seen |-> p.items, due |-> Visible, within |-> {}]
  BY <1>0 DEF FirstPage
<1>8. /\ walk'.state = "walking" /\ walk'.asked = None /\ walk'.page = p
      /\ walk'.seen = p.items /\ walk'.due = Visible /\ walk'.within = {}
      /\ walk' = [f \in WalkFields |-> walk'[f]]
  BY <1>7 DEF WalkFields
<1>9. LogTypeOK'
  BY <1>1, <1>5, <1>6, <1>8 DEF LogInv, LogTypeOK, Null, Visible
<1>10. NextOK'
  <2>1. CASE p.next = None
    BY <1>4, <1>8, <2>1 DEF NextOK
  <2>2. CASE p.next # None
    <3>1. LastOf(p.items) \in ToSet(p.items)
      BY <1>5, <1>6, <2>2, EmptySeq DEF LastOf, ToSet
    <3>2. \A e \in Visible : e \in ToSet(p.items) \/ Before(LastOf(p.items), e)'
      BY <1>1, <1>4, <3>1
    <3>3. Names(p.next, LastOf(p.items), "older")'
      BY <1>1, <1>5, <2>2
    <3>4. QED
      BY <1>5, <1>8, <2>2, <3>2, <3>3 DEF NextOK, LastOf
  <2>3. QED
    BY <2>1, <2>2
<1>11. PreviousOK'
  <2> SUFFICES ASSUME p.previous # None PROVE \E e \in LogEvents : Names(p.previous, e, "newer")'
    BY <1>8 DEF PreviousOK
  <2>1. Names(p.previous, p.items[1], "newer")'
    BY <1>1, <1>5
  <2>2. p.items[1] \in LogEvents
    BY <1>5 DEF Names, Recorded
  <2>3. QED
    BY <2>1, <2>2
<1>12. Descends(walk.seen)' /\ ToSet(walk'.seen) \subseteq Recorded'
  BY <1>1, <1>4, <1>6, <1>8
<1>13. QED
  BY <1>1, <1>2, <1>8, <1>9, <1>10, <1>11, <1>12 DEF LogInv, PageBackAdjoins

\* A list that goes on with what comes after it.
LEMMA Joined ==
  ASSUME NEW s \in Seq(LogEvents), NEW t \in Seq(LogEvents), Descends(s), Descends(t),
         \A e \in ToSet(s), f \in ToSet(t) : Before(e, f)
  PROVE  LET u == s \o t
         IN /\ u \in Seq(LogEvents) /\ Descends(u)
            /\ ToSet(u) = ToSet(s) \cup ToSet(t)
            /\ t # <<>> => u # <<>> /\ LastOf(u) = LastOf(t)
<1>0. PICK u, m, n : u = s \o t /\ m = Len(s) /\ n = Len(t)
  OBVIOUS
<1>1. m \in Nat /\ n \in Nat /\ DOMAIN s = 1..m /\ DOMAIN t = 1..n
  BY <1>0, LenProperties
<1>2. /\ u \in Seq(LogEvents) /\ Len(u) = m + n
      /\ \A i \in 1..(m + n) : u[i] = IF i <= m THEN s[i] ELSE t[i - m]
  BY <1>0, ConcatProperties
<1>3. DOMAIN u = 1..(m + n)
  BY <1>2, LenProperties
<1>4. \A i \in 1..m : i \in DOMAIN u /\ u[i] = s[i] /\ s[i] \in ToSet(s)
  <2> TAKE i \in 1..m
  <2>1. i \in 1..(m + n) /\ i <= m
    BY <1>1
  <2>2. QED
    BY <1>1, <1>2, <1>3, <2>1 DEF ToSet
<1>5. \A i \in 1..n : m + i \in DOMAIN u /\ u[m + i] = t[i] /\ t[i] \in ToSet(t)
  <2> TAKE i \in 1..n
  <2>1. m + i \in 1..(m + n) /\ ~(m + i <= m) /\ (m + i) - m = i
    BY <1>1
  <2>2. QED
    BY <1>1, <1>2, <1>3, <2>1 DEF ToSet
<1>6. \A k \in DOMAIN u : k \in 1..m \/ \E i \in 1..n : k = m + i
  <2> TAKE k \in DOMAIN u
  <2>1. k \in 1..m \/ (k - m \in 1..n /\ k = m + (k - m))
    BY <1>1, <1>3
  <2>2. QED
    BY <2>1
<1>7. Descends(u)
  <2> SUFFICES ASSUME NEW k \in DOMAIN u, NEW l \in DOMAIN u, k < l PROVE Before(u[k], u[l])
    BY DEF Descends
  <2>1. CASE k \in 1..m /\ l \in 1..m
    BY <1>1, <1>4, <2>1 DEF Descends
  <2>2. CASE k \in 1..m /\ \E i \in 1..n : l = m + i
    BY <1>4, <1>5, <2>2
  <2>3. ASSUME NEW i \in 1..n, NEW j \in 1..n, k = m + i, l = m + j
        PROVE  Before(u[k], u[l])
    <3>1. i < j
      BY <1>1, <2>3
    <3>2. QED
      BY <1>1, <1>5, <2>3, <3>1 DEF Descends
  <2>4. ASSUME NEW i \in 1..n, k = m + i, l \in 1..m
        PROVE  FALSE
    BY <1>1, <2>4
  <2>5. QED
    BY <1>6, <2>1, <2>2, <2>3, <2>4
<1>8. ToSet(u) = ToSet(s) \cup ToSet(t)
  <2>1. \A k \in DOMAIN u : u[k] \in ToSet(s) \cup ToSet(t)
    BY <1>4, <1>5, <1>6
  <2>2. \A i \in DOMAIN s : s[i] \in ToSet(u)
    BY <1>1, <1>4 DEF ToSet
  <2>3. \A i \in DOMAIN t : t[i] \in ToSet(u)
    BY <1>1, <1>5 DEF ToSet
  <2>4. QED
    BY <2>1, <2>2, <2>3 DEF ToSet
<1>9. t # <<>> => u # <<>> /\ LastOf(u) = LastOf(t)
  <2> SUFFICES ASSUME t # <<>> PROVE u # <<>> /\ LastOf(u) = LastOf(t)
    OBVIOUS
  <2>1. n \in 1..n /\ m + n # 0
    BY <1>0, <1>1, EmptySeq
  <2>2. u[m + n] = t[n]
    BY <1>5, <2>1
  <2>3. QED
    BY <1>0, <1>2, <2>1, <2>2, EmptySeq DEF LastOf
<1>10. QED
  BY <1>0, <1>2, <1>7, <1>8, <1>9

\* The rows of the next page come after those seen.
LEMMA NextPageKeeps ==
  ASSUME LogInv, NextPage
  PROVE  LogInv'
<1>0. PICK c, p, last : c = walk.page.next /\ p = Page(c) /\ last = LastOf(walk.seen)
  OBVIOUS
<1>1. /\ UNCHANGED <<logRows, occurred, now>> /\ c # None /\ walk.state = "walking"
      /\ walk' = [walk EXCEPT !.asked = c, !.page = p, !.seen = @ \o p.items]
  BY <1>0 DEF NextPage, Valid
<1> USE PageStep
<1>2. /\ Dated /\ now \in Nat /\ c \in Cursor /\ NextOK
  BY <1>0, <1>1 DEF LogInv, LogTypeOK, Null
<1>3. /\ walk.seen # <<>> /\ Names(c, last, "older") /\ last \in LogEvents
      /\ \A e \in walk.due : e \in ToSet(walk.seen) \/ Before(last, e)
  BY <1>0, <1>1, <1>2 DEF NextOK, Names, Recorded
<1>4. \A e \in Asked(c) : Before(last, e) /\ e \in Visible
  <2>1. Asked(c) = {e \in Visible : Older(e, occurred[last], last)}
    BY <1>1, <1>3 DEF Asked, Names
  <2>2. QED
    BY <1>2, <1>3, <2>1, ListOrder DEF Visible
<1>5. \A e \in Visible : Before(last, e) => e \in Asked(c)
  <2>1. Asked(c) = {e \in Visible : Older(e, occurred[last], last)}
    BY <1>1, <1>3 DEF Asked, Names
  <2>2. QED
    BY <1>2, <1>3, <2>1, ListOrder DEF Visible
<1>6. c.direction = "older"
  BY <1>3 DEF Names
<1>7. PICK k \in Nat : Part(p.items, NewestFirst(Asked(c)), k)
  BY <1>0, <1>2, <1>6, PageDown
<1>8. /\ ToSet(p.items) \subseteq Asked(c)
      /\ p.next = None => ToSet(p.items) = Asked(c)
      /\ \A e \in ToSet(p.items), f \in Asked(c) \ ToSet(p.items) : Before(e, f)
      /\ Cursors(p)
  BY <1>0, <1>2, <1>6, PageDown
<1>9. /\ p.next \in Null(Cursor) /\ p.previous \in Null(Cursor)
      /\ p.next # None => Names(p.next, LastOf(p.items), "older") /\ p.items # <<>>
      /\ p.previous # None => Names(p.previous, p.items[1], "newer")
  BY <1>0, <1>2, <1>7, <1>8, CursorNames
<1>10. p.items \in Seq(LogEvents) /\ Descends(p.items)
  BY <1>7 DEF Part
<1>10a. PICK seen : seen = walk.seen \o p.items
  OBVIOUS
<1>11. /\ walk'.state = "walking" /\ walk'.asked = c /\ walk'.page = p
       /\ walk'.seen = seen /\ walk'.due = walk.due /\ walk'.within = walk.within
       /\ walk' = [f \in WalkFields |-> walk'[f]]
  BY <1>1, <1>10a DEF LogInv, WalkFields
<1>12. /\ walk.seen \in Seq(LogEvents) /\ walk.seen # <<>> /\ Descends(walk.seen)
       /\ ToSet(walk.seen) \subseteq LogEvents
  BY <1>1, <1>3 DEF LogInv, LogTypeOK
<1>13. \A e \in ToSet(walk.seen) : e = last \/ Before(e, last)
  <2> SUFFICES ASSUME NEW i \in DOMAIN walk.seen
               PROVE  walk.seen[i] = last \/ Before(walk.seen[i], last)
    BY DEF ToSet
  <2>1. Len(walk.seen) \in Nat \ {0} /\ DOMAIN walk.seen = 1..Len(walk.seen)
    BY <1>12, EmptySeq, LenProperties
  <2>2. i = Len(walk.seen) \/ (i < Len(walk.seen) /\ Len(walk.seen) \in DOMAIN walk.seen)
    BY <2>1
  <2>3. QED
    BY <1>0, <1>12, <2>2 DEF Descends, LastOf
<1>14. \A e \in ToSet(walk.seen), f \in ToSet(p.items) : Before(e, f)
  <2> TAKE e \in ToSet(walk.seen), f \in ToSet(p.items)
  <2>1. e \in LogEvents /\ f \in LogEvents /\ Before(last, f)
    BY <1>1, <1>4, <1>8, <1>12
  <2>2. QED
    BY <1>2, <1>3, <1>13, <2>1, ListOrder
<1>15. /\ seen \in Seq(LogEvents) /\ Descends(seen)
       /\ ToSet(seen) = ToSet(walk.seen) \cup ToSet(p.items)
       /\ p.items # <<>> => seen # <<>> /\ LastOf(seen) = LastOf(p.items)
  BY <1>10, <1>10a, <1>12, <1>14, Joined
<1>16. p.items # <<>> => LastOf(p.items) \in ToSet(p.items)
  BY <1>10, EmptySeq, LenProperties DEF LastOf, ToSet
<1>17. LogTypeOK'
  BY <1>1, <1>2, <1>9, <1>10, <1>11, <1>15 DEF LogInv, LogTypeOK, Null
<1>18. NextOK'
  <2>1. \A e \in walk.due : e \in ToSet(seen) \/ e \in Asked(c) \ ToSet(p.items)
    BY <1>3, <1>5, <1>15 DEF LogInv
  <2>2. CASE p.next = None
    BY <1>8, <1>11, <2>1, <2>2 DEF NextOK
  <2>3. CASE p.next # None
    <3>1. \A e \in walk.due : e \in ToSet(seen) \/ Before(LastOf(seen), e)'
      BY <1>1, <1>8, <1>9, <1>15, <1>16, <2>1, <2>3
    <3>2. Names(p.next, LastOf(seen), "older")' /\ seen # <<>>
      BY <1>1, <1>9, <1>15, <2>3
    <3>3. QED
      BY <1>11, <2>3, <3>1, <3>2 DEF NextOK, LastOf
  <2>4. QED
    BY <2>2, <2>3
<1>19. PreviousOK'
  <2> SUFFICES ASSUME p.previous # None PROVE \E e \in LogEvents : Names(p.previous, e, "newer")'
    BY <1>11 DEF PreviousOK
  <2>1. Names(p.previous, p.items[1], "newer")'
    BY <1>1, <1>9
  <2>2. p.items[1] \in LogEvents
    BY <1>9 DEF Names, Recorded
  <2>3. QED
    BY <2>1, <2>2
<1>20. Descends(walk.seen)' /\ ToSet(walk'.seen) \subseteq Recorded'
  BY <1>1, <1>4, <1>8, <1>11, <1>15 DEF LogInv
<1>21. QED
  BY <1>1, <1>2, <1>11, <1>17, <1>18, <1>19, <1>20 DEF LogInv, PageBackAdjoins

LEMMA PreviousPageKeeps ==
  ASSUME LogInv, PreviousPage
  PROVE  LogInv'
<1>0. PICK c, p, within : /\ c = walk.page.previous /\ p = Page(c)
                          /\ within = {e \in Visible : Newer(e, c.at, c.of)}
  OBVIOUS
<1>1. /\ UNCHANGED <<logRows, occurred, now>> /\ c # None /\ walk.state = "walking"
      /\ walk' = [walk EXCEPT !.state = "ended", !.asked = c, !.page = p, !.within = within]
  BY <1>0 DEF PreviousPage, Valid
<1> USE PageStep
<1>2. Dated /\ now \in Nat /\ c \in Cursor /\ c.direction = "newer"
  BY <1>0, <1>1 DEF LogInv, LogTypeOK, Null, PreviousOK, Names
<1>3. Asked(c) = within
  BY <1>0, <1>1, <1>2 DEF Asked
<1>4. PICK k \in Nat : Part(p.items, NewestFirst(Asked(c)), k)
  BY <1>0, <1>2, PageUp
<1>5. /\ ToSet(p.items) \subseteq within
      /\ Cardinality(ToSet(p.items)) =
           IF Cardinality(within) > PageSize THEN PageSize ELSE Cardinality(within)
      /\ \A e \in ToSet(p.items), f \in within \ ToSet(p.items) : Before(f, e)
      /\ Cursors(p)
  BY <1>0, <1>2, <1>3, PageUp
<1>6. /\ p.next \in Null(Cursor) /\ p.previous \in Null(Cursor)
  BY <1>0, <1>2, <1>3, <1>4, <1>5, CursorNames
<1>7. p.items \in Seq(LogEvents) /\ Descends(p.items)
  BY <1>4 DEF Part
<1>8. /\ walk'.state = "ended" /\ walk'.asked = c /\ walk'.page = p /\ walk'.within = within
      /\ walk'.seen = walk.seen /\ walk'.due = walk.due
      /\ walk' = [f \in WalkFields |-> walk'[f]]
  BY <1>1 DEF LogInv, WalkFields
<1>9. within \subseteq LogEvents
  BY <1>0 DEF Visible
<1>10. LogTypeOK'
  BY <1>1, <1>2, <1>6, <1>7, <1>8, <1>9 DEF LogInv, LogTypeOK, Null
<1>11. PageBackAdjoins'
  <2>1. \A e \in ToSet(p.items), f \in within \ ToSet(p.items) : Older(e, occurred[f], f)
    BY <1>2, <1>5, <1>9, ListOrder
  <2>2. \A e \in ToSet(p.items), f \in within \ ToSet(p.items) : Older(e, occurred[f], f)'
    BY <1>1, <2>1 DEF Older
  <2>3. \A i, j \in DOMAIN p.items :
          i < j => Newer(p.items[i], occurred[p.items[j]], p.items[j])'
    BY <1>1, <1>7 DEF Descends, Before, Newer
  <2>4. QED
    BY <1>5, <1>8, <2>2, <2>3 DEF PageBackAdjoins
<1>12. Descends(walk.seen)' /\ ToSet(walk'.seen) \subseteq Recorded' /\ walk'.due \subseteq Visible'
  BY <1>1, <1>8 DEF LogInv
<1>13. walk'.within \subseteq Recorded'
  BY <1>1, <1>3, <1>8
<1>14. QED
  BY <1>1, <1>2, <1>8, <1>10, <1>11, <1>12, <1>13 DEF LogInv

LEMMA LogStep == LogInv /\ [LogNext]_<<logVars, now>> => LogInv'
<1> SUFFICES ASSUME LogInv, [LogNext]_<<logVars, now>> PROVE LogInv'
  OBVIOUS
<1>1. /\ logRows \in [LogEvents -> {"new", "open", "there", "pruned"}]
      /\ occurred \in [LogEvents -> Nat] /\ now \in Nat
      /\ walk.due \subseteq Visible
      /\ walk = [walk EXCEPT !.due = walk.due]
  BY DEF LogInv, LogTypeOK
<1>2. CASE LogTick \/ UNCHANGED <<logVars, now>>
  <2>1. UNCHANGED logVars /\ now' \in Nat
    BY <1>1, <1>2 DEF LogTick, Later
  <2>2. Recorded' = Recorded /\ Visible' = Visible
    BY <2>1 DEF Recorded, Visible, logVars
  <2>3. QED
    BY <1>1, <2>1, <2>2, WalkStands DEF logVars
<1>3. CASE LogPrune
  <2> DEFINE doomed == {e \in LogEvents : logRows[e] = "there" /\ now - occurred[e] > Retention}
  <2>1. /\ logRows' = [e \in LogEvents |-> IF e \in doomed THEN "pruned" ELSE logRows[e]]
        /\ walk' = [walk EXCEPT !.due = walk.due \ doomed]
        /\ UNCHANGED <<occurred, now>>
    BY <1>3 DEF LogPrune
  <2>2. doomed \subseteq {e \in LogEvents : logRows[e] = "there"}
    OBVIOUS
  <2> HIDE DEF doomed
  <2>3. /\ logRows' \in [LogEvents -> {"new", "open", "there", "pruned"}]
        /\ Recorded \subseteq Recorded'
        /\ Visible \ doomed \subseteq Visible'
    BY <1>1, <2>1, <2>2 DEF Recorded, Visible
  <2>4. PICK due : due = walk.due \ doomed
    OBVIOUS
  <2>5. due \in SUBSET walk.due /\ due \subseteq Visible'
    BY <1>1, <2>3, <2>4
  <2>6. QED
    BY <1>1, <2>1, <2>3, <2>4, <2>5, WalkStands
<1>4. ASSUME NEW e \in LogEvents, LogBegin(e) PROVE LogInv'
  <2>1. /\ logRows' = [logRows EXCEPT ![e] = "open"] /\ logRows[e] = "new"
        /\ occurred' = [occurred EXCEPT ![e] = now] /\ UNCHANGED <<walk, now>>
    BY <1>4 DEF LogBegin
  <2>2. Recorded \subseteq Recorded' /\ e \notin Recorded /\ Visible \subseteq Visible'
    BY <1>1, <2>1 DEF Recorded, Visible
  <2>3. \A f \in Recorded : occurred'[f] = occurred[f]
    BY <1>1, <2>1, <2>2 DEF Recorded
  <2>4. QED
    BY <1>1, <2>1, <2>2, <2>3, WalkStands
<1>5. ASSUME NEW e \in LogEvents, LogCommit(e) PROVE LogInv'
  <2>1. /\ logRows' = [logRows EXCEPT ![e] = "there"] /\ logRows[e] = "open"
        /\ UNCHANGED <<occurred, walk, now>>
    BY <1>5 DEF LogCommit
  <2>2. Recorded \subseteq Recorded' /\ Visible \subseteq Visible'
    BY <1>1, <2>1 DEF Recorded, Visible
  <2>3. QED
    BY <1>1, <2>1, <2>2, WalkStands
<1>6. QED
  BY <1>2, <1>3, <1>4, <1>5, FirstPageKeeps, NextPageKeeps, PreviousPageKeeps DEF LogNext

\* However events are recorded late and pruned while a manager pages through the
\* list, the pages fit together: down the list no event that stays is missed and none is
\* shown twice, and a page back is what lies next to the page it was asked from.
THEOREM PagesFit == LogSpec => []PagesAdjoin
<1>1. LogInv => PagesAdjoin
  <2> SUFFICES ASSUME LogInv PROVE WalkComplete
    BY DEF PagesAdjoin, LogInv
  <2>1. IsInjective(walk.seen)
    BY OncePerRow DEF LogInv, LogTypeOK, Dated
  <2>2. QED
    BY <2>1 DEF WalkComplete, LogInv, NextOK
<1>2. QED
  BY InitLog, LogStep, <1>1, PTL DEF LogSpec

(***************************************************************************)
(* Registration.  From the answer of Auth to the commit the account has    *)
(* the address of the request, and from the first check the school that    *)
(* its role asks for.                                                      *)
(***************************************************************************)
Enrolled(r) ==
  /\ registrations[r].at # "done" => users[r] = None
  /\ registrations[r].at \in {"auth", "existing", "check", "commit"} =>
       \/ registrations[r].school # None
       \/ RegRequest[r].actor = "ADMIN" /\ RegRequest[r].role = "STUDENT"
  /\ registrations[r].at \in {"existing", "check", "commit"} =>
       authEmails[r] = RegRequest[r].email

\* What a user made by a registration has.
Whole(r, user) ==
  IF user.role = "INSTRUCTOR"
  THEN user.school # None /\ user.hours # {} /\ \A h \in user.hours : h[2].from < h[2].to
  ELSE RegRequest[r].actor # "ADMIN" => user.school # None

RegistrationInv ==
  /\ RegistrationTypeOK
  /\ \A r \in Registrations : Enrolled(r)
  /\ RegistrationsHold
  /\ renaming = "auth" => authEmails[Renamed] = NewEmail
  /\ users[Renamed] # None

LEMMA RegShapes ==
  /\ None \notin Emails /\ None \notin RegSchools /\ None \notin UserRow
  /\ Registrations \subseteq Ids /\ Renamed \in Ids /\ Renamed \notin Registrations
  /\ NewEmail \in Emails
  /\ \A r \in Registrations : RegRequest[r] \in Requested
BY RegistrationAssumption DEF Ids

LEMMA RegTypes ==
  ASSUME RegistrationTypeOK
  PROVE  /\ \A r \in Registrations :
              /\ registrations[r] = [at |-> registrations[r].at, school |-> registrations[r].school]
              /\ registrations[r].school \in Null(RegSchools)
         /\ \A i \in Ids : users[i] \in Null(UserRow) /\ authEmails[i] \in Null(Emails)
BY RegShapes DEF RegistrationTypeOK

LEMMA InitRegistration == RegistrationInit => RegistrationInv
<1> SUFFICES ASSUME RegistrationInit PROVE RegistrationInv
  OBVIOUS
<1>1. /\ \A m \in Members : MemberRow[m] \in UserRow
      /\ Registrations \cap Members = {}
  BY RegistrationAssumption
<1>2. /\ authEmails \in [Ids -> Null(Emails)]
      /\ users \in [Ids -> Null(UserRow)]
  BY <1>1 DEF RegistrationInit, UserRow, Null
<1>3. RegistrationTypeOK
  BY <1>2 DEF RegistrationInit, RegistrationTypeOK, Null
<1>4. \A r \in Registrations : Enrolled(r) /\ users[r] = None
  BY <1>1, RegShapes DEF RegistrationInit, Enrolled
<1>5. AddressesAgree
  BY <1>1 DEF RegistrationInit, AddressesAgree
<1>6. users[Renamed] # None
  BY <1>1, RegistrationAssumption DEF RegistrationInit, Ids
<1>7. QED
  BY <1>3, <1>4, <1>5, <1>6
  DEF RegistrationInv, RegistrationsHold, RegisteredWhole, RegistrationInit

\* The hours of a school are some, and each starts before it ends.
LEMMA HoursAreSome ==
  ASSUME NEW s \in RegSchools
  PROVE  /\ HoursOf(s) \in SUBSET (Days \X Span) /\ HoursOf(s) # {}
         /\ \A h \in HoursOf(s) : h[2].from < h[2].to
<1> DEFINE settings == SchoolHours[s]
<1>1. settings \in Null(Settings)
  BY RegistrationAssumption
<1>2. Usual \in Span /\ Usual.from < Usual.to
  BY DEF Usual, Span
<1>3. 1..5 \subseteq Days /\ 1..5 # {}
  BY DEF Days
<1>4. CASE settings = None \/ settings.days = {}
  <2>1. HoursOf(s) = (1..5) \X {Usual}
    BY <1>4 DEF HoursOf
  <2>2. <<1, Usual>> \in HoursOf(s)
    BY <2>1
  <2>3. QED
    BY <1>2, <1>3, <2>1, <2>2
<1>5. CASE settings # None /\ settings.days # {}
  <2> DEFINE span == IF settings.span.from >= settings.span.to THEN Usual ELSE settings.span
  <2>1. HoursOf(s) = settings.days \X {span}
    BY <1>5 DEF HoursOf
  <2>2. settings.days \in SUBSET Days /\ settings.span \in Span
    BY <1>1, <1>5 DEF Settings, Null
  <2>3. span \in Span /\ span.from < span.to
    BY <1>2, <2>2 DEF Span
  <2> HIDE DEF span
  <2>4. PICK d \in settings.days : TRUE
    BY <1>5
  <2>5. <<d, span>> \in HoursOf(s)
    BY <2>1, <2>4
  <2>6. QED
    BY <2>1, <2>2, <2>3, <2>5
<1>6. QED
  BY <1>4, <1>5

\* A step that leaves what has been registered alone.
LEMMA UsersStay ==
  ASSUME RegistrationInv, UNCHANGED users PROVE RegisteredWhole'
BY DEF RegistrationInv, RegistrationsHold, RegisteredWhole

LEMMA WholeIs ==
  RegisteredWhole <=> \A r \in Registrations : users[r] # None => Whole(r, users[r])
BY DEF RegisteredWhole, Whole

\* A step of one registration that writes neither a user nor an address.
LEMMA RegisterMoves ==
  ASSUME RegistrationInv, NEW r \in Registrations,
         NEW at \in {"auth", "existing", "check", "commit", "failed"},
         NEW school \in Null(RegSchools),
         registrations' = [registrations EXCEPT ![r] = [at |-> at, school |-> school]],
         UNCHANGED <<authEmails, users, renaming>>, liveSchools' \subseteq RegSchools,
         registrations[r].at # "done",
         at # "failed" => \/ school # None
                          \/ RegRequest[r].actor = "ADMIN" /\ RegRequest[r].role = "STUDENT",
         at \in {"existing", "check", "commit"} => authEmails[r] = RegRequest[r].email
  PROVE  RegistrationInv'
<1>1. /\ registrations'[r].at = at /\ registrations'[r].school = school
      /\ \A o \in Registrations \ {r} : registrations'[o] = registrations[o]
      /\ users[r] = None
  BY DEF RegistrationInv, RegistrationTypeOK, Enrolled
<1>2. RegistrationTypeOK'
  BY DEF RegistrationInv, RegistrationTypeOK
<1>3. ASSUME NEW o \in Registrations PROVE Enrolled(o)'
  BY <1>1 DEF RegistrationInv, Enrolled
<1>4. AddressesAgree'
  BY DEF RegistrationInv, RegistrationsHold, AddressesAgree
<1>5. QED
  BY <1>2, <1>3, <1>4, UsersStay DEF RegistrationInv, RegistrationsHold

LEMMA MovesTo ==
  ASSUME RegistrationTypeOK, NEW r \in Registrations, NEW at
  PROVE  [registrations EXCEPT ![r].at = at]
           = [registrations EXCEPT ![r] = [at |-> at, school |-> registrations[r].school]]
<1>1. [registrations[r] EXCEPT !.at = at] = [at |-> at, school |-> registrations[r].school]
  <2>1. PICK row : row = registrations[r]
    OBVIOUS
  <2>2. row = [at |-> row.at, school |-> row.school]
    BY <2>1, RegTypes
  <2>3. [row EXCEPT !.at = at] = [at |-> at, school |-> row.school]
    BY <2>2
  <2>4. QED
    BY <2>1, <2>3
<1>2. [registrations EXCEPT ![r].at = at]
        = [registrations EXCEPT ![r] = [registrations[r] EXCEPT !.at = at]]
  OBVIOUS
<1>3. QED
  BY <1>1, <1>2

LEMMA EndsStep ==
  ASSUME RegistrationInv, NEW r \in Registrations, Ends(r), registrations[r].at # "done",
         UNCHANGED <<authEmails, users, liveSchools, renaming>>
  PROVE  RegistrationInv'
<1>1. /\ RegistrationTypeOK /\ liveSchools \subseteq RegSchools
      /\ registrations[r].school \in Null(RegSchools)
  BY RegTypes DEF RegistrationInv, RegistrationTypeOK
<1>2. registrations' = [registrations EXCEPT ![r] =
        [at |-> "failed", school |-> registrations[r].school]]
  BY <1>1, MovesTo DEF Ends
<1>3. QED
  BY <1>1, <1>2, RegisterMoves

LEMMA BeginRegStep == ASSUME RegistrationInv, NEW r \in Registrations, RegisterBegin(r)
                      PROVE  RegistrationInv'
<1> DEFINE q == RegRequest[r]
           needless == q.actor = "ADMIN" /\ q.role = "STUDENT" /\ q.school = None
           valid == {s \in SchoolFor(r) : MayAssign(q.actor, s)}
           school == IF needless THEN None ELSE CHOOSE s \in valid : TRUE
<1>1. /\ registrations[r].at = "new"
      /\ UNCHANGED <<authEmails, users, liveSchools, renaming>>
      /\ \/ /\ needless \/ valid # {}
            /\ registrations' = [registrations EXCEPT ![r] = [at |-> "auth", school |-> school]]
         \/ Ends(r)
  BY DEF RegisterBegin
<1>2. liveSchools \subseteq RegSchools
  BY DEF RegistrationInv, RegistrationTypeOK
<1>3. valid \subseteq RegSchools
  BY <1>2 DEF MayAssign
<1> HIDE DEF valid
<1>4. ASSUME needless \/ valid # {}
      PROVE  school \in Null(RegSchools) /\ (needless \/ school # None)
  BY <1>3, <1>4, RegShapes DEF Null
<1> HIDE DEF school
<1>5. CASE Ends(r)
  BY <1>1, <1>5, EndsStep
<1>6. CASE ~Ends(r)
  BY <1>1, <1>2, <1>4, <1>6, RegisterMoves
<1>7. QED
  BY <1>5, <1>6

LEMMA AuthStep == ASSUME RegistrationInv, NEW r \in Registrations, RegisterAuth(r)
                  PROVE  RegistrationInv'
<1> DEFINE e == RegRequest[r].email
<1>1. /\ registrations[r].at = "auth" /\ UNCHANGED <<users, liveSchools, renaming>>
      /\ \/ /\ authEmails' = [authEmails EXCEPT ![r] = e]
            /\ \E at \in {"existing", "failed"} :
                 registrations' = [registrations EXCEPT ![r].at = at]
         \/ Ends(r) /\ UNCHANGED authEmails
  BY DEF RegisterAuth, Ends
<1>2. CASE Ends(r) /\ UNCHANGED authEmails
  BY <1>1, <1>2, EndsStep
<1>3. CASE ~(Ends(r) /\ UNCHANGED authEmails)
  <2>1. PICK at \in {"existing", "failed"} :
          registrations' = [registrations EXCEPT ![r].at = at]
    BY <1>1, <1>3
  <2>2. authEmails' = [authEmails EXCEPT ![r] = e]
    BY <1>1, <1>3
  <2>3. /\ RegistrationTypeOK /\ Enrolled(r)
        /\ registrations[r].school \in Null(RegSchools) /\ e \in Emails
    BY RegTypes, RegShapes DEF RegistrationInv, Requested
  <2> DEFINE row == [at |-> at, school |-> registrations[r].school]
  <2>4. registrations' = [registrations EXCEPT ![r] = row]
    BY <2>1, <2>3, MovesTo
  <2>5. RegistrationTypeOK'
    BY <1>1, <2>2, <2>3, <2>4, RegShapes DEF RegistrationTypeOK, Null
  <2>6. /\ registrations'[r].at = at /\ registrations'[r].school = registrations[r].school
        /\ \A o \in Registrations \ {r} : registrations'[o] = registrations[o]
        /\ authEmails'[r] = e /\ \A i \in Ids \ {r} : authEmails'[i] = authEmails[i]
        /\ users[r] = None
    BY <1>1, <2>2, <2>3, <2>4, RegShapes DEF RegistrationTypeOK, Enrolled
  <2>7. ASSUME NEW o \in Registrations PROVE Enrolled(o)'
    <3>1. CASE o = r
      BY <1>1, <2>3, <2>6, <3>1 DEF Enrolled
    <3>2. CASE o # r
      BY <1>1, <2>6, <3>2, RegShapes DEF Enrolled, RegistrationInv
    <3>3. QED
      BY <3>1, <3>2
  <2>8. AddressesAgree'
    BY <1>1, <2>6 DEF RegistrationInv, RegistrationsHold, AddressesAgree
  <2>9. renaming' = "auth" => authEmails'[Renamed] = NewEmail
    BY <1>1, <2>6, RegShapes DEF RegistrationInv
  <2>10. QED
    BY <1>1, <2>5, <2>7, <2>8, <2>9, UsersStay DEF RegistrationInv, RegistrationsHold
<1>4. QED
  BY <1>2, <1>3

\* The two checks before the commit.
LEMMA CheckStep ==
  ASSUME RegistrationInv, NEW r \in Registrations, RegisterExisting(r) \/ RegisterCheck(r)
  PROVE  RegistrationInv'
<1>1. /\ registrations[r].at \in {"existing", "check"}
      /\ UNCHANGED <<authEmails, users, liveSchools, renaming>>
      /\ \/ \E at \in {"check", "commit"} :
              registrations' = [registrations EXCEPT ![r].at = at]
         \/ Ends(r)
  BY DEF RegisterExisting, RegisterCheck
<1>2. /\ RegistrationTypeOK /\ Enrolled(r) /\ liveSchools \subseteq RegSchools
      /\ registrations[r].school \in Null(RegSchools)
  BY RegTypes DEF RegistrationInv, RegistrationTypeOK
<1>3. CASE Ends(r)
  BY <1>1, <1>3, EndsStep
<1>4. CASE ~Ends(r)
  <2>1. PICK at \in {"check", "commit"} : registrations' = [registrations EXCEPT ![r].at = at]
    BY <1>1, <1>4
  <2>2. registrations' = [registrations EXCEPT ![r] =
          [at |-> at, school |-> registrations[r].school]]
    BY <1>2, <2>1, MovesTo
  <2>3. /\ authEmails[r] = RegRequest[r].email
        /\ \/ registrations[r].school # None
           \/ RegRequest[r].actor = "ADMIN" /\ RegRequest[r].role = "STUDENT"
    BY <1>1, <1>2 DEF Enrolled
  <2>4. QED
    BY <1>1, <1>2, <2>2, <2>3, RegisterMoves
<1>5. QED
  BY <1>3, <1>4

LEMMA NewUserIs ==
  ASSUME RegistrationInv, NEW r \in Registrations, registrations[r].at = "commit"
  PROVE  /\ NewUser(r) \in UserRow /\ NewUser(r).email = RegRequest[r].email
         /\ Whole(r, NewUser(r))
<1> DEFINE q == RegRequest[r]
           s == registrations[r].school
           hours == IF q.role = "INSTRUCTOR" THEN HoursOf(s) ELSE {}
<1>1. /\ q.role \in {"INSTRUCTOR", "STUDENT"} /\ q.email \in Emails
      /\ s \in Null(RegSchools)
      /\ s # None \/ (q.actor = "ADMIN" /\ q.role = "STUDENT")
  BY RegShapes, RegTypes DEF RegistrationInv, Requested, Enrolled
<1>2. s # None => s \in RegSchools
  BY <1>1 DEF Null
<1>3. hours \in SUBSET (Days \X Span)
  BY <1>1, <1>2, HoursAreSome
<1>4. q.role = "INSTRUCTOR" => hours # {} /\ \A h \in hours : h[2].from < h[2].to
  BY <1>1, <1>2, HoursAreSome
<1>5. NewUser(r) = [email |-> q.email, role |-> q.role, school |-> s, hours |-> hours]
  BY DEF NewUser
<1> HIDE DEF q, s, hours
<1>6. NewUser(r) \in UserRow
  BY <1>1, <1>3, <1>5 DEF UserRow
<1>7. Whole(r, NewUser(r))
  BY <1>1, <1>4, <1>5 DEF Whole, q
<1>8. QED
  BY <1>5, <1>6, <1>7 DEF q

LEMMA CommitRegStep == ASSUME RegistrationInv, NEW r \in Registrations, RegisterCommit(r)
                       PROVE  RegistrationInv'
<1>1. /\ registrations[r].at = "commit" /\ UNCHANGED <<authEmails, liveSchools, renaming>>
      /\ \/ /\ users' = [users EXCEPT ![r] = NewUser(r)]
            /\ registrations' = [registrations EXCEPT ![r].at = "done"]
         \/ Ends(r) /\ UNCHANGED users
  BY DEF RegisterCommit
<1>2. CASE Ends(r) /\ UNCHANGED users
  BY <1>1, <1>2, EndsStep
<1>3. CASE ~(Ends(r) /\ UNCHANGED users)
  <2>1. /\ users' = [users EXCEPT ![r] = NewUser(r)]
        /\ registrations' = [registrations EXCEPT ![r].at = "done"]
    BY <1>1, <1>3
  <2>2. RegistrationTypeOK /\ registrations[r].school \in Null(RegSchools)
    BY RegTypes DEF RegistrationInv
  <2>3. registrations' = [registrations EXCEPT ![r] =
          [at |-> "done", school |-> registrations[r].school]]
    BY <2>1, <2>2, MovesTo
  <2>4. /\ NewUser(r) \in UserRow /\ NewUser(r).email = RegRequest[r].email
        /\ Whole(r, NewUser(r)) /\ authEmails[r] = RegRequest[r].email
    BY <1>1, NewUserIs DEF RegistrationInv, Enrolled
  <2>5. RegistrationTypeOK'
    BY <1>1, <2>1, <2>2, <2>3, <2>4, RegShapes DEF RegistrationTypeOK, Null
  <2>6. /\ registrations'[r].at = "done"
        /\ \A o \in Registrations \ {r} : registrations'[o] = registrations[o]
        /\ users'[r] = NewUser(r) /\ \A i \in Ids \ {r} : users'[i] = users[i]
    BY <2>1, <2>2, <2>3, RegShapes DEF RegistrationTypeOK
  <2>7. ASSUME NEW o \in Registrations PROVE Enrolled(o)'
    <3>1. CASE o = r
      BY <2>6, <3>1 DEF Enrolled
    <3>2. CASE o # r
      BY <1>1, <2>6, <3>2, RegShapes DEF Enrolled, RegistrationInv
    <3>3. QED
      BY <3>1, <3>2
  <2>8. AddressesAgree'
    BY <1>1, <2>4, <2>6 DEF RegistrationInv, RegistrationsHold, AddressesAgree
  <2>9. RegisteredWhole'
    <3>1. \A o \in Registrations : users'[o] # None => Whole(o, users'[o])
      BY <2>4, <2>6, WholeIs, RegShapes DEF RegistrationInv, RegistrationsHold
    <3>2. QED
      BY <3>1 DEF RegisteredWhole, Whole
  <2>10. users'[Renamed] # None
    BY <2>6, RegShapes DEF RegistrationInv
  <2>11. QED
    BY <1>1, <2>5, <2>7, <2>8, <2>9, <2>10 DEF RegistrationInv, RegistrationsHold
<1>4. QED
  BY <1>2, <1>3

LEMMA RenameAuthStep == ASSUME RegistrationInv, RenameInAuth PROVE RegistrationInv'
<1>1. /\ renaming = "asked" /\ UNCHANGED <<users, liveSchools, registrations>>
      /\ \/ authEmails' = [authEmails EXCEPT ![Renamed] = NewEmail] /\ renaming' = "auth"
         \/ renaming' = "refused" /\ UNCHANGED authEmails
  BY DEF RenameInAuth
<1>2. RegistrationTypeOK
  BY DEF RegistrationInv
<1>3. /\ RegistrationTypeOK'
      /\ \A i \in Ids \ {Renamed} : authEmails'[i] = authEmails[i]
      /\ renaming' = "auth" => authEmails'[Renamed] = NewEmail
      /\ renaming' # "auth" => authEmails' = authEmails
  BY <1>1, <1>2, RegShapes DEF RegistrationTypeOK, Null
<1>4. ASSUME NEW o \in Registrations PROVE Enrolled(o)'
  BY <1>1, <1>3, RegShapes DEF RegistrationInv, Enrolled
<1>5. AddressesAgree'
  BY <1>1, <1>3 DEF RegistrationInv, RegistrationsHold, AddressesAgree
<1>6. QED
  BY <1>1, <1>3, <1>4, <1>5, UsersStay DEF RegistrationInv, RegistrationsHold

LEMMA RenameAppStep == ASSUME RegistrationInv, RenameInApp PROVE RegistrationInv'
<1> DEFINE row == [users[Renamed] EXCEPT !.email = NewEmail]
<1>1. /\ renaming = "auth" /\ renaming' = "done"
      /\ users' = [users EXCEPT ![Renamed] = row]
      /\ UNCHANGED <<authEmails, liveSchools, registrations>>
  BY DEF RenameInApp
<1>2. RegistrationTypeOK /\ authEmails[Renamed] = NewEmail
  BY <1>1 DEF RegistrationInv
<1>3. users[Renamed] # None
  BY DEF RegistrationInv
<1>4. row \in UserRow /\ row.email = NewEmail
  BY <1>2, <1>3, RegTypes, RegShapes DEF UserRow, Null
<1> HIDE DEF row
<1>5. /\ RegistrationTypeOK' /\ users'[Renamed] = row
      /\ \A i \in Ids \ {Renamed} : users'[i] = users[i]
  BY <1>1, <1>2, <1>4, RegShapes DEF RegistrationTypeOK, Null
<1>6. users'[Renamed] # None /\ \A r \in Registrations : users'[r] = users[r]
  BY <1>4, <1>5, RegShapes
<1>7. ASSUME NEW o \in Registrations PROVE Enrolled(o)'
  BY <1>1, <1>6 DEF RegistrationInv, Enrolled
<1>8. AddressesAgree'
  BY <1>1, <1>2, <1>4, <1>5 DEF RegistrationInv, RegistrationsHold, AddressesAgree
<1>9. RegisteredWhole'
  BY <1>6 DEF RegistrationInv, RegistrationsHold, RegisteredWhole
<1>10. QED
  BY <1>1, <1>5, <1>6, <1>7, <1>8, <1>9 DEF RegistrationInv, RegistrationsHold

LEMMA RegistrationStays ==
  ASSUME RegistrationInv, UNCHANGED <<authEmails, users, registrations, renaming>>,
         liveSchools' \subseteq liveSchools
  PROVE  RegistrationInv'
<1>1. RegistrationTypeOK'
  BY DEF RegistrationInv, RegistrationTypeOK
<1>2. \A r \in Registrations : Enrolled(r)'
  BY DEF RegistrationInv, Enrolled
<1>3. AddressesAgree'
  BY DEF RegistrationInv, RegistrationsHold, AddressesAgree
<1>4. QED
  BY <1>1, <1>2, <1>3, UsersStay DEF RegistrationInv, RegistrationsHold

LEMMA RegistrationStep ==
  ASSUME RegistrationInv, [RegistrationNext]_<<registrationVars, now>> PROVE RegistrationInv'
<1>1. CASE UNCHANGED registrationVars \/ \E s \in RegSchools : SchoolDeleted(s)
  BY <1>1, RegistrationStays DEF registrationVars, SchoolDeleted
<1>2. QED
  BY <1>1, BeginRegStep, AuthStep, CheckStep, CommitRegStep, RenameAuthStep, RenameAppStep
  DEF RegistrationNext

\* Wherever a registration stops, the user it has made is whole, and every user's
\* address is that of the account in Auth, but for an address change under way
\* (controllers/auth/register.handler, manager-accounts/emailChange).
THEOREM RegisteredStayWhole == RegistrationSpec => []RegistrationsHold
<1>1. RegistrationInv => RegistrationsHold
  BY DEF RegistrationInv
<1>2. QED
  BY InitRegistration, RegistrationStep, <1>1, PTL DEF RegistrationSpec

(***************************************************************************)
(* The reset of an audit database.  A transaction that has the lock is the *)
(* only one that removes rows, so that what it has read to keep is still   *)
(* there when it commits, and what it was confirmed for is still so unless *)
(* somebody has edited since.                                              *)
(***************************************************************************)
Holding(r) == resets[r].state \in {"locked", "deleting"}

\* The rows, each of which leads to rows that are there.
RowsWhole ==
  /\ accounts \in [AuditAccounts -> Null(AuditRow)]
  /\ owners \in [AuditSchools -> Null(AuditAccounts)]
  /\ work \in Nat
  /\ \A s \in Standing : accounts[owners[s]] # None
  /\ \A a \in Here : accounts[a].school # None => accounts[a].school \in Standing

\* What a request that is being deleted for is to keep, and what goes.
Chosen(r) ==
  resets[r].state = "deleting" =>
    /\ OperationOf[r] \in Levels
    /\ resets[r].kept.schools \subseteq Standing
    /\ resets[r].kept.users \subseteq AuditAccounts
    /\ resets[r].doomed.schools \subseteq AuditSchools
    /\ resets[r].kept.schools \cap resets[r].doomed.schools = {}
    /\ HereAs("ADMIN") \cap resets[r].kept.users # {}
    /\ resets[r].doomed.work \in 0..work

\* What a request with the lock was shown is there, and what it keeps is what a reset
\* of its level keeps, until somebody edits.
Unsurprised(r) ==
  Holding(r) /\ resets[r].edits = edits =>
    /\ resets[r].shown = Preview(OperationOf[r])
    /\ resets[r].state = "deleting" =>
         /\ resets[r].kept = Kept(OperationOf[r])
         /\ resets[r].doomed = [schools |-> Standing \ resets[r].kept.schools, work |-> work]

Fields == {"state", "at", "shown", "kept", "doomed", "edits"}
Request(r) ==
  /\ resets[r] = [k \in Fields |-> resets[r][k]]
  /\ resets[r].edits \in Nat /\ resets[r].edits <= edits
  /\ Holding(r) => auditLock = r
  /\ Chosen(r)
  /\ Unsurprised(r)

AuditInv ==
  /\ RowsWhole
  /\ AdminRemains
  /\ edits \in Nat
  /\ resets = [r \in Resets |-> resets[r]]
  /\ \A r \in Resets : Request(r)

LEMMA RequestsAreSomebody == None \notin Resets
BY AuditAssumption

LEMMA InitAudit == AuditInit => AuditInv
<1> SUFFICES ASSUME AuditInit PROVE AuditInv
  OBVIOUS
<1>1. RowsWhole
  <2>1. /\ accounts \in [AuditAccounts -> Null(AuditRow)]
        /\ owners \in [AuditSchools -> Null(AuditAccounts)]
        /\ work \in Nat
    BY RowsAssumption DEF AuditInit
  <2>2. \A s \in Standing : accounts[owners[s]] # None
    BY RowsAssumption DEF AuditInit, Standing
  <2>3. ASSUME NEW a \in Here, accounts[a].school # None
        PROVE  accounts[a].school \in Standing
    <3>1. accounts[a] \in AuditRow
      BY <2>1 DEF Here, Null
    <3>2. accounts[a].school \in AuditSchools
      BY <3>1, <2>3 DEF AuditRow, Null
    <3>3. QED
      BY <2>3, <3>2, RowsAssumption DEF AuditInit, Standing, Here
  <2>4. QED
    BY <2>1, <2>2, <2>3 DEF RowsWhole
<1>2. AdminRemains
  BY RowsAssumption, AuditAssumption DEF AuditInit, AdminRemains, HereAs, Here
<1>3. edits \in Nat /\ resets = [r \in Resets |-> resets[r]]
  BY DEF AuditInit
<1>4. ASSUME NEW r \in Resets PROVE Request(r)
  BY DEF AuditInit, Request, Holding, Chosen, Unsurprised, Fields
<1>5. QED
  BY <1>1, <1>2, <1>3, <1>4 DEF AuditInv

(* --------------------------------------------------- steps of one request *)
\* Where no row changes, everything read from the rows is as before.
LEMMA SameRows ==
  ASSUME UNCHANGED auditTables
  PROVE  /\ Standing' = Standing /\ Here' = Here
         /\ \A role \in STRING : HereAs(role)' = HereAs(role)
         /\ HereAs("ADMIN")' = HereAs("ADMIN")
         /\ RowsWhole' = RowsWhole
         /\ \A op : Kept(op)' = Kept(op) /\ Preview(op)' = Preview(op)
<1>1. Standing' = Standing /\ Here' = Here
  BY DEF auditTables, Standing, Here
<1>2. \A role : HereAs(role)' = HereAs(role)
  BY <1>1 DEF HereAs
<1>3. \A op : KeptSchools(op)' = KeptSchools(op)
  BY <1>1 DEF KeptSchools, auditTables
<1>4. \A op : KeptInstructors(op)' = KeptInstructors(op)
  BY <1>2, <1>3 DEF KeptInstructors, auditTables
<1>5. Summary' = Summary
  BY <1>1, <1>2 DEF Summary, auditTables
<1>6. \A op : Kept(op)' = Kept(op)
  BY <1>2, <1>3, <1>4 DEF Kept
<1>7. \A op : Preview(op)' = Preview(op)
  BY <1>2, <1>3, <1>4, <1>5 DEF Preview, Retained
<1>8. RowsWhole' = RowsWhole
  BY <1>1 DEF RowsWhole, auditTables
<1>9. QED
  BY <1>1, <1>2, <1>6, <1>7, <1>8

LEMMA Bystander ==
  ASSUME NEW o \in Resets, Request(o), UNCHANGED <<auditTables, edits>>,
         resets'[o] = resets[o], Holding(o) => auditLock' = auditLock
  PROVE  Request(o)'
<1>1. Chosen(o)'
  BY SameRows DEF Request, Chosen, auditTables
<1>2. Unsurprised(o)'
  BY SameRows DEF Request, Unsurprised, Holding, auditTables
<1>3. QED
  BY <1>1, <1>2 DEF Request, Holding

\* A step of r on its own request.
LEMMA OwnStep ==
  ASSUME AuditInv, NEW r \in Resets, NEW row,
         UNCHANGED <<auditTables, edits>>, resets' = [resets EXCEPT ![r] = row],
         auditLock' = auditLock \/ auditLock \in {None, r}, Request(r)'
  PROVE  AuditInv'
<1>1. ASSUME NEW o \in Resets PROVE Request(o)'
  <2>1. CASE o = r
    BY <2>1
  <2>2. CASE o # r
    <3>1. resets'[o] = resets[o] /\ Request(o)
      BY <2>2 DEF AuditInv
    <3>2. Holding(o) => auditLock' = auditLock
      BY <3>1, <2>2, RequestsAreSomebody DEF Request
    <3>3. QED
      BY <3>1, <3>2, Bystander
  <2>3. QED
    BY <2>1, <2>2
<1>2. QED
  BY <1>1, SameRows DEF AuditInv, AdminRemains

\* A request that is not in its transaction needs nothing of the rows.
LEMMA Idle ==
  ASSUME AuditInv, NEW r \in Resets, NEW state \in {"shown", "auth", "ready"},
         UNCHANGED edits,
         resets'[r] = [k \in Fields |-> resets'[r][k]],
         resets'[r].state = state, resets'[r].edits = resets[r].edits
  PROVE  Request(r)'
BY DEF AuditInv, Request, Holding, Chosen, Unsurprised

LEMMA PreviewStep == ASSUME AuditInv, NEW r \in Resets, ShowPreview(r) PROVE AuditInv'
<1> DEFINE row == [resets[r] EXCEPT !.state = "shown", !.at = now, !.shown = Preview(OperationOf[r])]
<1>1. resets' = [resets EXCEPT ![r] = row] /\ resets'[r] = row
  BY DEF ShowPreview, AuditInv
<1>2. resets[r] = [k \in Fields |-> resets[r][k]]
  BY DEF AuditInv, Request
<1>3. row = [k \in Fields |-> row[k]] /\ row.state = "shown" /\ row.edits = resets[r].edits
  BY <1>2 DEF Fields
<1> HIDE DEF row
<1>4. Request(r)'
  BY <1>1, <1>3, Idle DEF ShowPreview
<1>5. QED
  BY <1>1, <1>4, OwnStep DEF ShowPreview

LEMMA ExecuteStep == ASSUME AuditInv, NEW r \in Resets, Execute(r) PROVE AuditInv'
<1> DEFINE row == [resets[r] EXCEPT !.state = IF OperationOf[r] \in Levels THEN "ready" ELSE "auth"]
<1>1. resets' = [resets EXCEPT ![r] = row] /\ resets'[r] = row
  BY DEF Execute, AuditInv
<1>2. resets[r] = [k \in Fields |-> resets[r][k]]
  BY DEF AuditInv, Request
<1>3. row = [k \in Fields |-> row[k]] /\ row.edits = resets[r].edits
  BY <1>2 DEF Fields
<1>4. row.state \in {"ready", "auth"}
  BY <1>2 DEF Fields
<1> HIDE DEF row
<1>5. Request(r)'
  BY <1>1, <1>3, <1>4, Idle DEF Execute
<1>6. QED
  BY <1>1, <1>5, OwnStep DEF Execute

LEMMA EnsureStep == ASSUME AuditInv, NEW r \in Resets, EnsureAuth(r) PROVE AuditInv'
<1> DEFINE row == [resets[r] EXCEPT !.state = "ready"]
<1>1. resets' = [resets EXCEPT ![r] = row] /\ resets'[r] = row
  BY DEF EnsureAuth, AuditInv
<1>2. resets[r] = [k \in Fields |-> resets[r][k]]
  BY DEF AuditInv, Request
<1>3. row = [k \in Fields |-> row[k]] /\ row.state = "ready" /\ row.edits = resets[r].edits
  BY <1>2 DEF Fields
<1> HIDE DEF row
<1>4. Request(r)'
  BY <1>1, <1>3, Idle DEF EnsureAuth
<1>5. QED
  BY <1>1, <1>4, OwnStep DEF EnsureAuth

LEMMA BeginStep == ASSUME AuditInv, NEW r \in Resets, BeginReset(r) PROVE AuditInv'
<1> DEFINE row == [resets[r] EXCEPT !.state = "locked", !.edits = edits]
<1>1. resets' = [resets EXCEPT ![r] = row] /\ resets'[r] = row
  BY DEF BeginReset, AuditInv
<1>2. resets[r] = [k \in Fields |-> resets[r][k]]
  BY DEF AuditInv, Request
<1>3. /\ row = [k \in Fields |-> row[k]] /\ row.state = "locked" /\ row.edits = edits
      /\ row.shown = resets[r].shown
  BY <1>2 DEF Fields
<1> HIDE DEF row
<1>4. resets[r].shown = Preview(OperationOf[r])
  BY DEF BeginReset, Agreed
<1>5. Unsurprised(r)'
  BY <1>1, <1>3, <1>4, SameRows DEF BeginReset, Unsurprised
<1>6. Request(r)'
  BY <1>1, <1>3, <1>5 DEF BeginReset, Request, Holding, Chosen, AuditInv
<1>7. QED
  BY <1>1, <1>6, OwnStep DEF BeginReset, Agreed

LEMMA KeepStep == ASSUME AuditInv, NEW r \in Resets, KeepAndDelete(r) PROVE AuditInv'
<1> DEFINE kept == Kept(OperationOf[r])
           row == [resets[r] EXCEPT !.state = "deleting", !.kept = kept,
                     !.doomed = [schools |-> Standing \ kept.schools, work |-> work]]
<1>1. resets' = [resets EXCEPT ![r] = row] /\ resets'[r] = row
  BY DEF KeepAndDelete, AuditInv
<1>2. resets[r] = [k \in Fields |-> resets[r][k]] /\ Request(r)
  BY DEF AuditInv, Request
<1>3. /\ row = [k \in Fields |-> row[k]] /\ row.state = "deleting"
      /\ row.kept = kept /\ row.edits = resets[r].edits
      /\ row.doomed = [schools |-> Standing \ kept.schools, work |-> work]
      /\ row.shown = resets[r].shown
  BY <1>2 DEF Fields
<1>4. /\ kept.schools \subseteq Standing /\ kept.users \subseteq AuditAccounts
      /\ HereAs("ADMIN") \cap kept.users # {}
  BY DEF Kept, KeptSchools, KeptInstructors, HereAs, Here, AuditInv, AdminRemains
<1>5. Standing \subseteq AuditSchools /\ work \in Nat
  BY DEF Standing, AuditInv, RowsWhole
<1>6. /\ UNCHANGED <<auditTables, auditLock, edits>> /\ work' = work
      /\ resets[r].state = "locked" /\ OperationOf[r] \in Levels
  BY DEF KeepAndDelete, auditTables
<1>7. kept' = kept
  BY <1>6, SameRows
<1> HIDE DEF row, kept
<1>8. Chosen(r)'
  BY <1>1, <1>3, <1>4, <1>5, <1>6, SameRows DEF Chosen
<1>9. Unsurprised(r)'
  BY <1>1, <1>2, <1>3, <1>6, <1>7, SameRows DEF Unsurprised, Request, Holding, kept
<1>10. Request(r)'
  BY <1>1, <1>2, <1>3, <1>6, <1>8, <1>9 DEF Request, Holding
<1>11. QED
  BY <1>1, <1>6, <1>10, OwnStep

LEMMA RefuseStep == ASSUME AuditInv, NEW r \in Resets, RefuseReset(r) PROVE AuditInv'
<1> DEFINE row == [resets[r] EXCEPT !.state = "refused", !.kept = NothingKept, !.doomed = NothingDoomed]
<1>1. resets' = [resets EXCEPT ![r] = row] /\ resets'[r] = row
  BY DEF RefuseReset, AuditInv
<1>2. resets[r] = [k \in Fields |-> resets[r][k]]
  BY DEF AuditInv, Request
<1>3. row = [k \in Fields |-> row[k]] /\ row.state = "refused" /\ row.edits = resets[r].edits
  BY <1>2 DEF Fields
<1> HIDE DEF row
<1>4. Request(r)'
  BY <1>1, <1>3 DEF RefuseReset, Request, Holding, Chosen, Unsurprised, AuditInv
<1>5. auditLock' = auditLock \/ auditLock \in {None, r}
  BY DEF RefuseReset
<1>6. QED
  BY <1>1, <1>4, <1>5, OwnStep DEF RefuseReset

(* ---------------------------------------------------------------- commits *)
\* Only the one with the lock is in its transaction.
LEMMA OneHolds ==
  ASSUME AuditInv, NEW r \in Resets, Holding(r), NEW o \in Resets, o # r
  PROVE  ~Holding(o)
BY RequestsAreSomebody DEF AuditInv, Request

\* A commit leaves the requests as they should be, whatever it does to the rows.
LEMMA CloseStep ==
  ASSUME AuditInv, NEW r \in Resets, Holding(r), Closed(r), RowsWhole', AdminRemains'
  PROVE  AuditInv'
<1> DEFINE row == [resets[r] EXCEPT !.state = "done", !.kept = NothingKept, !.doomed = NothingDoomed]
<1>1. /\ resets' = [resets EXCEPT ![r] = row] /\ resets'[r] = row
      /\ resets' = [q \in Resets |-> resets'[q]]
  BY DEF Closed, AuditInv
<1>2. resets[r] = [k \in Fields |-> resets[r][k]]
  BY DEF AuditInv, Request
<1>3. row = [k \in Fields |-> row[k]] /\ row.state = "done" /\ row.edits = resets[r].edits
  BY <1>2 DEF Fields
<1> HIDE DEF row
<1>4. Request(r)'
  BY <1>1, <1>3 DEF Closed, Request, Holding, Chosen, Unsurprised, AuditInv
<1>5. ASSUME NEW o \in Resets, o # r PROVE Request(o)'
  <2>1. resets'[o] = resets[o] /\ ~Holding(o) /\ Request(o)
    BY <1>1, <1>5, OneHolds DEF AuditInv
  <2>2. QED
    BY <2>1 DEF Closed, Request, Holding, Chosen, Unsurprised
<1>6. edits' \in Nat
  BY DEF Closed, AuditInv
<1>7. QED
  BY <1>1, <1>4, <1>5, <1>6 DEF AuditInv

LEMMA PartialStep == ASSUME AuditInv, NEW r \in Resets, CommitPartial(r) PROVE AuditInv'
<1> DEFINE kept == resets[r].kept
           doomed == resets[r].doomed
           link(a) == IF accounts[a].school \in kept.schools THEN accounts[a].school ELSE None
<1>1. /\ resets[r].state = "deleting"
      /\ \A s \in Standing \ doomed.schools : owners[s] \in kept.users
      /\ owners' = [s \in AuditSchools |-> IF s \in doomed.schools THEN None ELSE owners[s]]
      /\ accounts' = [a \in AuditAccounts |->
           IF a \in Here \cap kept.users THEN [school |-> link(a)] ELSE None]
      /\ work' = work - doomed.work
      /\ Closed(r)
  BY DEF CommitPartial
<1>2. /\ kept.schools \subseteq Standing /\ kept.schools \cap doomed.schools = {}
      /\ HereAs("ADMIN") \cap kept.users # {}
      /\ doomed.work \in 0..work
  BY <1>1 DEF AuditInv, Request, Chosen
<1>3. /\ accounts \in [AuditAccounts -> Null(AuditRow)]
      /\ owners \in [AuditSchools -> Null(AuditAccounts)]
      /\ work \in Nat
      /\ \A s \in Standing : accounts[owners[s]] # None
  BY DEF AuditInv, RowsWhole
<1>4. Standing \subseteq AuditSchools /\ Here \subseteq AuditAccounts
  BY DEF Standing, Here
<1>5. Holding(r)
  BY <1>1 DEF Holding
<1> HIDE DEF kept, doomed
<1>6. \A a : [school |-> link(a)] \in AuditRow
  BY <1>2, <1>4 DEF AuditRow, Null
<1>7. /\ accounts' \in [AuditAccounts -> Null(AuditRow)]
      /\ Here' = Here \cap kept.users
      /\ \A a \in Here' : accounts'[a].school = link(a)
  <2>1. ASSUME NEW a \in AuditAccounts
        PROVE  IF a \in Here \cap kept.users THEN accounts'[a] = [school |-> link(a)]
                                             ELSE accounts'[a] = None
    BY <1>1
  <2>2. Here' = Here \cap kept.users
    BY <2>1, <1>4, <1>6, RowsAssumption DEF Here
  <2>3. accounts' \in [AuditAccounts -> Null(AuditRow)]
    BY <1>1, <1>6 DEF Null
  <2>4. QED
    BY <2>1, <2>2, <2>3, <1>4
<1>8. /\ owners' \in [AuditSchools -> Null(AuditAccounts)]
      /\ Standing' = Standing \ doomed.schools
      /\ \A s \in Standing' : owners'[s] = owners[s]
  BY <1>1, <1>3 DEF Standing, Null
<1>9. \A s \in Standing' : accounts'[owners'[s]] # None
  <2>1. ASSUME NEW s \in Standing' PROVE owners'[s] \in Here'
    <3>1. owners[s] \in AuditAccounts
      BY <2>1, <1>3, <1>8 DEF Standing, Null
    <3>2. owners[s] \in Here
      BY <2>1, <3>1, <1>3, <1>8 DEF Here
    <3>3. QED
      BY <2>1, <3>2, <1>1, <1>7, <1>8
  <2>2. QED
    BY <2>1 DEF Here
<1>10. \A a \in Here' : accounts'[a].school # None => accounts'[a].school \in Standing'
  BY <1>2, <1>7, <1>8
<1>11. work' \in Nat
  BY <1>1, <1>2, <1>3
<1>12. RowsWhole'
  BY <1>7, <1>8, <1>9, <1>10, <1>11 DEF RowsWhole
<1>13. AdminRemains'
  BY <1>2, <1>7 DEF AdminRemains, HereAs
<1>14. QED
  BY <1>1, <1>5, <1>12, <1>13, CloseStep

LEMMA ClearedWhole ==
  ASSUME NEW some \in SUBSET AuditAccounts, NEW school \in Null(AuditSchools),
         Cleared(some, school), Technician \in some,
         school = None => \A a \in some : RoleOf[a] \notin {"INSTRUCTOR", "STUDENT"},
         school # None => \E a \in some : RoleOf[a] = "MANAGER"
  PROVE  RowsWhole' /\ AdminRemains'
<1> DEFINE link(a) == IF RoleOf[a] \in {"INSTRUCTOR", "STUDENT"} THEN school ELSE None
           owner == CHOOSE a \in some : RoleOf[a] = "MANAGER"
<1>1. /\ accounts' = [a \in AuditAccounts |-> IF a \notin some THEN None ELSE [school |-> link(a)]]
      /\ owners' = [s \in AuditSchools |-> IF s = school /\ s # None THEN owner ELSE None]
      /\ work' = 0
  BY DEF Cleared
<1>2. \A a : [school |-> link(a)] \in AuditRow
  BY DEF AuditRow, Null
<1>3. school # None => owner \in some
  OBVIOUS
<1> HIDE DEF owner
<1>4. /\ accounts' \in [AuditAccounts -> Null(AuditRow)]
      /\ Here' = some
      /\ \A a \in some : accounts'[a].school = link(a)
  <2>1. ASSUME NEW a \in AuditAccounts
        PROVE  IF a \in some THEN accounts'[a] = [school |-> link(a)]
                              ELSE accounts'[a] = None
    BY <1>1
  <2>2. Here' = some
    BY <2>1, <1>2, RowsAssumption DEF Here
  <2>3. accounts' \in [AuditAccounts -> Null(AuditRow)]
    BY <1>1, <1>2 DEF Null
  <2>4. QED
    BY <2>1, <2>2, <2>3
<1>5. /\ owners' \in [AuditSchools -> Null(AuditAccounts)]
      /\ Standing' = {school} \ {None}
      /\ \A s \in Standing' : owners'[s] = owner
  <2>1. ASSUME NEW s \in AuditSchools
        PROVE  IF s = school /\ s # None THEN owners'[s] = owner ELSE owners'[s] = None
    BY <1>1
  <2>2. owner # None \/ school = None
    BY <1>3, AuditAssumption
  <2>3. Standing' = {school} \ {None}
    BY <2>1, <2>2 DEF Standing, Null
  <2>4. owners' \in [AuditSchools -> Null(AuditAccounts)]
    BY <1>1, <1>3 DEF Null
  <2>5. QED
    BY <2>1, <2>3, <2>4 DEF Null
<1>6. \A s \in Standing' : accounts'[owners'[s]] # None
  BY <1>3, <1>4, <1>5 DEF Here
<1>7. \A a \in Here' : accounts'[a].school # None => accounts'[a].school \in Standing'
  BY <1>4, <1>5
<1>8. AdminRemains'
  BY <1>4, AuditAssumption DEF AdminRemains, HereAs
<1>9. QED
  BY <1>1, <1>4, <1>5, <1>6, <1>7, <1>8 DEF RowsWhole

LEMMA FullStep == ASSUME AuditInv, NEW r \in Resets, CommitFull(r) PROVE AuditInv'
<1>1. Holding(r) /\ Closed(r)
  BY DEF CommitFull, Holding
<1>2. RowsWhole' /\ AdminRemains'
  <2>1. CASE OperationOf[r] = "full"
    <3>1. Cleared({Technician}, None)
      BY <2>1 DEF CommitFull
    <3>2. QED
      BY <3>1, ClearedWhole, AuditAssumption DEF Null
  <2>2. CASE OperationOf[r] # "full"
    <3>1. Cleared(FixtureAccounts, FixtureSchool)
      BY <2>2 DEF CommitFull
    <3>2. FixtureSchool # None
      BY AuditAssumption
    <3>3. QED
      BY <3>1, <3>2, ClearedWhole, AuditAssumption DEF Null
  <2>3. QED
    BY <2>1, <2>2
<1>3. QED
  BY <1>1, <1>2, CloseStep

(* ------------------------------------------------------------------ edits *)
\* An edit surprises every request with the lock, and takes nothing from what it keeps.
LEMMA EditStep ==
  ASSUME AuditInv, edits' = edits + 1, UNCHANGED <<auditLock, resets>>, RowsWhole', AdminRemains',
         \A r \in Resets : Holding(r) =>
           Here \subseteq Here' /\ Standing \subseteq Standing' /\ work <= work'
  PROVE  AuditInv'
<1>1. ASSUME NEW r \in Resets PROVE Request(r)'
  <2>1. Request(r) /\ edits \in Nat /\ resets'[r] = resets[r] /\ Holding(r)' = Holding(r)
    BY DEF AuditInv, Holding
  <2>2. Chosen(r)'
    <3>1. CASE resets[r].state = "deleting"
      <4>1. Chosen(r) /\ Here \subseteq Here' /\ Standing \subseteq Standing' /\ work <= work'
        BY <2>1, <3>1 DEF Request, Holding
      <4>2. HereAs("ADMIN") \subseteq HereAs("ADMIN")'
        BY <4>1 DEF HereAs
      <4>3. work \in Nat /\ work' \in Nat
        BY DEF AuditInv, RowsWhole
      <4>4. QED
        BY <2>1, <3>1, <4>1, <4>2, <4>3 DEF Chosen
    <3>2. QED
      BY <2>1, <3>1 DEF Chosen
  <2>3. Unsurprised(r)'
    BY <2>1 DEF Request, Unsurprised
  <2>4. QED
    BY <2>1, <2>2, <2>3 DEF Request
<1>2. QED
  BY <1>1 DEF AuditInv

LEMMA AddAccountStep ==
  ASSUME AuditInv, NEW a \in AuditAccounts, NEW s \in Null(AuditSchools), AddAccount(a, s)
  PROVE  AuditInv'
<1>1. /\ accounts[a] = None /\ accounts' = [accounts EXCEPT ![a] = [school |-> s]]
      /\ owners' = owners /\ work' = work /\ edits' = edits + 1
      /\ UNCHANGED <<auditLock, resets>>
      /\ s # None => s \in Standing
  BY DEF AddAccount, Edited
<1>2. /\ accounts \in [AuditAccounts -> Null(AuditRow)]
      /\ \A q \in Standing : accounts[owners[q]] # None
      /\ \A b \in Here : accounts[b].school # None => accounts[b].school \in Standing
      /\ owners \in [AuditSchools -> Null(AuditAccounts)]
      /\ work \in Nat
  BY DEF AuditInv, RowsWhole
<1>3. [school |-> s] \in AuditRow
  BY DEF AuditRow
<1>4. accounts' \in [AuditAccounts -> Null(AuditRow)] /\ accounts'[a] = [school |-> s]
  BY <1>1, <1>2, <1>3 DEF Null
<1>5. Here' = Here \cup {a} /\ Standing' = Standing
  BY <1>1, <1>2, <1>3, RowsAssumption DEF Here, Standing
<1>6. \A q \in Standing' : accounts'[owners'[q]] # None
  <2>1. ASSUME NEW q \in Standing' PROVE accounts'[owners'[q]] # None
    <3>1. owners'[q] \in AuditAccounts /\ accounts[owners'[q]] # None
      BY <1>1, <1>2, <1>5 DEF Standing, Null
    <3>2. QED
      BY <1>1, <1>2, <3>1
  <2>2. QED
    BY <2>1
<1>7. \A b \in Here' : accounts'[b].school # None => accounts'[b].school \in Standing'
  <2>1. ASSUME NEW b \in Here', accounts'[b].school # None PROVE accounts'[b].school \in Standing'
    <3>1. CASE b = a
      BY <2>1, <3>1, <1>1, <1>4, <1>5
    <3>2. CASE b # a
      BY <2>1, <3>2, <1>1, <1>2, <1>5
    <3>3. QED
      BY <3>1, <3>2
  <2>2. QED
    BY <2>1
<1>8. RowsWhole'
  BY <1>1, <1>2, <1>4, <1>6, <1>7 DEF RowsWhole
<1>9. AdminRemains'
  BY <1>5 DEF AuditInv, AdminRemains, HereAs
<1>10. QED
  BY <1>1, <1>2, <1>5, <1>8, <1>9, EditStep

LEMMA MoveStep ==
  ASSUME AuditInv, NEW a \in AuditAccounts, NEW s \in AuditSchools, MoveAccount(a, s)
  PROVE  AuditInv'
<1>1. /\ a \in Here /\ accounts' = [accounts EXCEPT ![a].school = s]
      /\ owners' = owners /\ work' = work /\ edits' = edits + 1
      /\ UNCHANGED <<auditLock, resets>> /\ s \in Standing
  BY DEF MoveAccount, Edited, HereAs
<1>2. /\ accounts \in [AuditAccounts -> Null(AuditRow)]
      /\ \A q \in Standing : accounts[owners[q]] # None
      /\ \A b \in Here : accounts[b].school # None => accounts[b].school \in Standing
      /\ owners \in [AuditSchools -> Null(AuditAccounts)]
      /\ work \in Nat
  BY DEF AuditInv, RowsWhole
<1>3. accounts'[a] = [school |-> s] /\ accounts'[a] \in AuditRow
  BY <1>1, <1>2 DEF AuditRow, Null, Here
<1>4. accounts' \in [AuditAccounts -> Null(AuditRow)]
  BY <1>1, <1>2, <1>3 DEF Null
<1>5. Here' = Here /\ Standing' = Standing
  BY <1>1, <1>2, <1>3, RowsAssumption DEF Here, Standing
<1>6. \A q \in Standing' : accounts'[owners'[q]] # None
  <2>1. ASSUME NEW q \in Standing' PROVE accounts'[owners'[q]] # None
    <3>1. owners'[q] \in Here
      BY <1>1, <1>2, <1>5 DEF Standing, Null, Here
    <3>2. QED
      BY <1>5, <3>1 DEF Here
  <2>2. QED
    BY <2>1
<1>7. \A b \in Here' : accounts'[b].school # None => accounts'[b].school \in Standing'
  <2>1. ASSUME NEW b \in Here', accounts'[b].school # None PROVE accounts'[b].school \in Standing'
    <3>1. CASE b = a
      BY <2>1, <3>1, <1>1, <1>3, <1>5
    <3>2. CASE b # a
      BY <2>1, <3>2, <1>1, <1>2, <1>5
    <3>3. QED
      BY <3>1, <3>2
  <2>2. QED
    BY <2>1
<1>8. RowsWhole'
  BY <1>1, <1>2, <1>4, <1>6, <1>7 DEF RowsWhole
<1>9. AdminRemains'
  BY <1>5 DEF AuditInv, AdminRemains, HereAs
<1>10. QED
  BY <1>1, <1>2, <1>5, <1>8, <1>9, EditStep

LEMMA AddSchoolStep ==
  ASSUME AuditInv, NEW a \in AuditAccounts, NEW s \in AuditSchools, AddSchool(s, a)
  PROVE  AuditInv'
<1>1. /\ owners[s] = None /\ a \in Here /\ owners' = [owners EXCEPT ![s] = a]
      /\ accounts' = accounts /\ work' = work /\ edits' = edits + 1
      /\ UNCHANGED <<auditLock, resets>>
  BY DEF AddSchool, Edited, HereAs
<1>2. /\ accounts \in [AuditAccounts -> Null(AuditRow)]
      /\ \A q \in Standing : accounts[owners[q]] # None
      /\ \A b \in Here : accounts[b].school # None => accounts[b].school \in Standing
      /\ owners \in [AuditSchools -> Null(AuditAccounts)]
      /\ work \in Nat
  BY DEF AuditInv, RowsWhole
<1>3. a # None /\ a \in AuditAccounts
  BY <1>1, AuditAssumption
<1>4. owners' \in [AuditSchools -> Null(AuditAccounts)]
  BY <1>1, <1>2, <1>3 DEF Null
<1>5. Here' = Here /\ Standing' = Standing \cup {s}
  BY <1>1, <1>2, <1>3 DEF Here, Standing
<1>6. \A q \in Standing' : accounts'[owners'[q]] # None
  BY <1>1, <1>2, <1>5 DEF Here, Standing
<1>7. RowsWhole'
  BY <1>1, <1>2, <1>4, <1>5, <1>6 DEF RowsWhole
<1>8. AdminRemains'
  BY <1>5 DEF AuditInv, AdminRemains, HereAs
<1>9. QED
  BY <1>1, <1>2, <1>5, <1>7, <1>8, EditStep

LEMMA AddWorkStep == ASSUME AuditInv, AddWork PROVE AuditInv'
<1>1. /\ work' = work + 1 /\ accounts' = accounts /\ owners' = owners
      /\ edits' = edits + 1 /\ UNCHANGED <<auditLock, resets>> /\ work \in Nat
  BY DEF AddWork, Edited, AuditInv, RowsWhole
<1>2. Here' = Here /\ Standing' = Standing
  BY <1>1 DEF Here, Standing
<1>3. RowsWhole' /\ AdminRemains'
  BY <1>1, <1>2 DEF AuditInv, RowsWhole, AdminRemains, HereAs
<1>4. QED
  BY <1>1, <1>2, <1>3, EditStep

LEMMA SeedStep == ASSUME AuditInv, DemoSeed PROVE AuditInv'
<1>1. /\ accounts' = AuditRows.accounts /\ owners' = AuditRows.owners /\ work' = AuditWork
      /\ edits' = edits + 1 /\ UNCHANGED <<auditLock, resets>>
      /\ \A r \in Resets : ~Holding(r)
  BY DEF DemoSeed, Holding
<1>2. \A s \in Standing' : accounts'[owners'[s]] # None
  BY <1>1, RowsAssumption DEF Standing
<1>3. ASSUME NEW a \in Here', accounts'[a].school # None
      PROVE  accounts'[a].school \in Standing'
  <2>1. accounts'[a] \in AuditRow
    BY <1>1, RowsAssumption DEF Here, Null
  <2>2. accounts'[a].school \in AuditSchools
    BY <2>1, <1>3 DEF AuditRow, Null
  <2>3. QED
    BY <1>1, <1>3, <2>2, RowsAssumption DEF Standing, Here
<1>4. RowsWhole'
  BY <1>1, <1>2, <1>3, RowsAssumption DEF RowsWhole
<1>5. AdminRemains'
  BY <1>1, RowsAssumption, AuditAssumption DEF AdminRemains, HereAs, Here
<1>6. QED
  BY <1>1, <1>4, <1>5, EditStep

LEMMA StillAudit == ASSUME AuditInv, UNCHANGED auditVars PROVE AuditInv'
<1>1. ASSUME NEW r \in Resets PROVE Request(r)'
  BY Bystander DEF AuditInv, auditVars
<1>2. QED
  BY <1>1, SameRows DEF AuditInv, AdminRemains, auditVars

LEMMA AuditStep == ASSUME AuditInv, [AuditNext]_<<auditVars, now>> PROVE AuditInv'
BY StillAudit, PreviewStep, ExecuteStep, EnsureStep, BeginStep, KeepStep, PartialStep, FullStep,
   RefuseStep, AddAccountStep, AddSchoolStep, MoveStep, AddWorkStep, SeedStep
DEF AuditNext, AuditTick

\* A reset commits what was confirmed.
LEMMA CommitHonours ==
  ASSUME AuditInv, NEW r \in Resets, resets[r].edits = edits
  PROVE  /\ CommitPartial(r) => /\ resets[r].shown.before = Summary
                                /\ resets[r].shown.retained = Summary'
         /\ CommitFull(r) => resets[r].shown.before = Summary
<1>1. Holding(r) => /\ resets[r].shown.before = Summary
                    /\ resets[r].shown.retained = Retained(OperationOf[r])
  <2>1. Holding(r) => resets[r].shown = Preview(OperationOf[r])
    BY DEF AuditInv, Request, Unsurprised
  <2>2. /\ Preview(OperationOf[r]).before = Summary
        /\ Preview(OperationOf[r]).retained = Retained(OperationOf[r])
    BY DEF Preview
  <2>3. QED
    BY <2>1, <2>2
<1>2. ASSUME CommitPartial(r) PROVE Retained(OperationOf[r]) = Summary'
  <2> DEFINE op == OperationOf[r]
             kept == Kept(op)
  <2>1. /\ resets[r].kept = kept
        /\ resets[r].doomed = [schools |-> Standing \ kept.schools, work |-> work]
        /\ kept.schools \subseteq Standing
        /\ op \in Levels
    BY <1>2 DEF CommitPartial, AuditInv, Request, Unsurprised, Chosen, Holding
  <2>2. /\ owners' = [s \in AuditSchools |-> IF s \in Standing \ kept.schools THEN None ELSE owners[s]]
        /\ work' = work - work
        /\ \A a \in AuditAccounts :
             IF a \in Here \cap kept.users
             THEN \E s \in Null(AuditSchools) : accounts'[a] = [school |-> s]
             ELSE accounts'[a] = None
    <3>1. \A a \in AuditAccounts :
            accounts'[a] = IF a \in Here \cap kept.users
                           THEN [school |-> IF accounts[a].school \in kept.schools
                                            THEN accounts[a].school ELSE None]
                           ELSE None
      BY <1>2, <2>1 DEF CommitPartial
    <3>2. kept.schools \subseteq AuditSchools
      BY <2>1 DEF Standing
    <3>3. \A a \in AuditAccounts :
            (IF accounts[a].school \in kept.schools THEN accounts[a].school ELSE None)
              \in Null(AuditSchools)
      BY <3>2 DEF Null
    <3>4. \A a \in AuditAccounts :
            IF a \in Here \cap kept.users
            THEN \E s \in Null(AuditSchools) : accounts'[a] = [school |-> s]
            ELSE accounts'[a] = None
      BY <3>1, <3>3
    <3>5. QED
      BY <1>2, <2>1, <3>4 DEF CommitPartial
  <2>3. Here' = Here \cap kept.users
    <3>1. \A s \in Null(AuditSchools) : [school |-> s] # None
      BY RowsAssumption DEF AuditRow
    <3>2. QED
      BY <2>2, <3>1 DEF Here
  <2>4. Standing' = kept.schools /\ work' = 0
    BY <2>1, <2>2 DEF Standing, AuditInv, RowsWhole
  <2>5. /\ HereAs("ADMIN")' = HereAs("ADMIN") /\ HereAs("MANAGER")' = HereAs("MANAGER")
        /\ HereAs("INSTRUCTOR")' = KeptInstructors(op) /\ HereAs("STUDENT")' = {}
    <3>1. KeptInstructors(op) \subseteq HereAs("INSTRUCTOR")
      BY DEF KeptInstructors
    <3>2. QED
      BY <2>3, <3>1 DEF HereAs, Kept
  <2>6. Cardinality({}) = 0
    BY FS_EmptySet
  <2>7. kept.schools = KeptSchools(op) /\ op \notin {"full", "fixture"}
    BY <2>1 DEF Kept, Levels
  <2>8. QED
    BY <2>4, <2>5, <2>6, <2>7 DEF Summary, Retained
<1>3. QED
  BY <1>1, <1>2 DEF CommitPartial, CommitFull, Holding

\* An administrator is left to sign in, whichever resets of other administrators
\* follow or overlap and whatever is edited beside them (services/auditReset).
THEOREM AdminsStay == AuditSpec => []AdminRemains
<1>1. AuditInv => AdminRemains
  BY DEF AuditInv
<1>2. QED
  BY InitAudit, AuditStep, <1>1, PTL DEF AuditSpec

\* What a reset removes is, to the count, what its administrator has confirmed, unless
\* somebody edits during the transaction itself.
THEOREM ConfirmedIsRemoved == AuditSpec => PreviewHonoured
<1> DEFINE Honoured ==
      \A r \in Resets :
        (CommitPartial(r) \/ CommitFull(r)) /\ resets[r].edits = edits =>
          /\ resets[r].shown.before = Summary
          /\ CommitPartial(r) => resets[r].shown.retained = Summary'
<1>1. AuditInv => Honoured
  BY CommitHonours
<1>2. QED
  BY InitAudit, AuditStep, <1>1, PTL DEF AuditSpec, PreviewHonoured

(***************************************************************************)
(* Types, as far as the invariants above do not say them.                  *)
(***************************************************************************)
ResetTyped(r) ==
  /\ resets[r].state \in {"new", "shown", "auth", "ready", "locked", "deleting", "done", "refused"}
  /\ resets[r].at \in Nat
  /\ resets[r].kept \in [schools : SUBSET AuditSchools, users : SUBSET AuditAccounts]
  /\ resets[r].doomed \in [schools : SUBSET AuditSchools, work : Nat]
AuditTyped ==
  /\ now \in Nat /\ authAdmin \in BOOLEAN /\ auditLock \in Null(Resets)
  /\ edits \in 0..EditLimit
  /\ \A r \in Resets : ResetTyped(r)

LEMMA InitTyped == AuditInit /\ now = 0 => AuditTyped
<1> SUFFICES ASSUME AuditInit, now = 0 PROVE AuditTyped
  OBVIOUS
<1>1. /\ NothingKept \in [schools : SUBSET AuditSchools, users : SUBSET AuditAccounts]
      /\ NothingDoomed \in [schools : SUBSET AuditSchools, work : Nat]
  BY DEF NothingKept, NothingDoomed
<1>2. ASSUME NEW r \in Resets PROVE ResetTyped(r)
  <2>1. /\ resets[r].state = "new" /\ resets[r].at = 0
        /\ resets[r].kept = NothingKept /\ resets[r].doomed = NothingDoomed
    BY DEF AuditInit
  <2>2. QED
    BY <1>1, <2>1 DEF ResetTyped
<1>3. QED
  <2>1. auditLock \in Null(Resets) /\ authAdmin \in BOOLEAN /\ now \in Nat
    BY DEF AuditInit, Null
  <2>2. EditLimit \in Nat /\ edits = 0
    BY AuditAssumption DEF AuditInit
  <2>3. edits \in 0..EditLimit
    BY <2>2
  <2>4. QED
    BY <1>2, <2>1, <2>3 DEF AuditTyped

\* A step of r on its own request keeps the types, if it is well typed then.
LEMMA TypedRow ==
  ASSUME AuditTyped, NEW r \in Resets, NEW row, resets = [o \in Resets |-> resets[o]],
         resets' = [resets EXCEPT ![r] = row], UNCHANGED <<edits, now>>,
         authAdmin' \in BOOLEAN, auditLock' \in Null(Resets),
         ResetTyped(r)'
  PROVE  AuditTyped'
<1>1. \A o \in Resets \ {r} : resets'[o] = resets[o]
  OBVIOUS
<1>2. \A o \in Resets : ResetTyped(o)'
  BY <1>1 DEF AuditTyped, ResetTyped
<1>3. QED
  BY <1>2 DEF AuditTyped

LEMMA TypedStep ==
  ASSUME AuditInv, AuditTyped, NEW r \in Resets,
         \/ ShowPreview(r) \/ Execute(r) \/ EnsureAuth(r) \/ BeginReset(r)
         \/ KeepAndDelete(r) \/ CommitPartial(r) \/ CommitFull(r) \/ RefuseReset(r)
  PROVE  AuditTyped'
<1>1. /\ resets = [o \in Resets |-> resets[o]] /\ ResetTyped(r)
      /\ resets[r] = [k \in Fields |-> resets[r][k]] /\ work \in Nat
      /\ now \in Nat /\ auditLock \in Null(Resets) /\ authAdmin \in BOOLEAN
  BY DEF AuditInv, AuditTyped, Request, RowsWhole
<1>2. /\ Kept(OperationOf[r]) \in [schools : SUBSET AuditSchools, users : SUBSET AuditAccounts]
      /\ Standing \subseteq AuditSchools
  BY DEF Kept, KeptSchools, KeptInstructors, HereAs, Here, Standing
<1>3. /\ NothingKept \in [schools : SUBSET AuditSchools, users : SUBSET AuditAccounts]
      /\ NothingDoomed \in [schools : SUBSET AuditSchools, work : Nat]
  BY DEF NothingKept, NothingDoomed
<1>4. PICK row : resets' = [resets EXCEPT ![r] = row]
  BY DEF ShowPreview, Execute, EnsureAuth, BeginReset, KeepAndDelete, CommitPartial, CommitFull,
     RefuseReset, Closed
<1>5. UNCHANGED <<edits, now>> /\ authAdmin' \in BOOLEAN /\ auditLock' \in Null(Resets)
  BY <1>1 DEF ShowPreview, Execute, EnsureAuth, BeginReset, KeepAndDelete, CommitPartial,
     CommitFull, RefuseReset, Closed, Null
<1>6. ResetTyped(r)'
  <2>1. CASE ShowPreview(r) \/ Execute(r) \/ EnsureAuth(r) \/ BeginReset(r)
    BY <1>1, <2>1 DEF ShowPreview, Execute, EnsureAuth, BeginReset, ResetTyped, Fields
  <2>2. CASE KeepAndDelete(r)
    BY <1>1, <1>2, <2>2 DEF KeepAndDelete, ResetTyped, Fields
  <2>3. CASE CommitPartial(r) \/ CommitFull(r) \/ RefuseReset(r)
    <3> DEFINE shut(state) == [resets[r] EXCEPT !.state = state, !.kept = NothingKept,
                                                !.doomed = NothingDoomed]
    <3>1. PICK state \in {"done", "refused"} : resets' = [resets EXCEPT ![r] = shut(state)]
      BY <2>3 DEF CommitPartial, CommitFull, RefuseReset, Closed
    <3>2. resets'[r] = shut(state)
      BY <1>1, <3>1
    <3>3. /\ shut(state).state = state /\ shut(state).at = resets[r].at
          /\ shut(state).kept = NothingKept /\ shut(state).doomed = NothingDoomed
      BY <1>1 DEF Fields
    <3>4. QED
      BY <1>1, <1>3, <3>2, <3>3 DEF ResetTyped
  <2>4. QED
    BY <2>1, <2>2, <2>3
<1>7. QED
  BY <1>1, <1>4, <1>5, <1>6, TypedRow

LEMMA TypedSteps == AuditInv /\ AuditTyped /\ [AuditNext]_<<auditVars, now>> => AuditTyped'
<1> SUFFICES ASSUME AuditInv, AuditTyped, [AuditNext]_<<auditVars, now>> PROVE AuditTyped'
  OBVIOUS
<1>1. ASSUME UNCHANGED resets, now' \in Nat, authAdmin' \in BOOLEAN, auditLock' = auditLock,
             edits' \in 0..EditLimit
      PROVE  AuditTyped'
  BY <1>1 DEF AuditTyped, ResetTyped
<1>2. CASE AuditTick \/ UNCHANGED <<auditVars, now>>
  BY <1>1, <1>2 DEF AuditTick, Later, auditVars, AuditTyped
<1>3. ASSUME edits < EditLimit, edits' = edits + 1, UNCHANGED <<auditLock, resets, now>>,
             authAdmin' \in BOOLEAN
      PROVE  AuditTyped'
  BY <1>1, <1>3, AuditAssumption DEF AuditTyped
<1>4. CASE \/ AddWork \/ DemoSeed
           \/ \E a \in AuditAccounts : \/ \E s \in Null(AuditSchools) : AddAccount(a, s)
                                      \/ \E s \in AuditSchools : AddSchool(s, a) \/ MoveAccount(a, s)
  <2>1. /\ edits < EditLimit /\ edits' = edits + 1 /\ UNCHANGED <<auditLock, resets, now>>
        /\ authAdmin' = TRUE \/ authAdmin' = authAdmin
    BY <1>4 DEF AddWork, DemoSeed, AddAccount, AddSchool, MoveAccount, Edited
  <2>2. QED
    BY <1>3, <2>1 DEF AuditTyped
<1>5. QED
  BY <1>2, <1>4, TypedStep DEF AuditNext

LEMMA AuditTypes == AuditInv /\ AuditTyped => AuditTypeOK
<1> SUFFICES ASSUME AuditInv, AuditTyped, NEW r \in Resets
             PROVE  [k \in DOMAIN resets[r] \ {"shown"} |-> resets[r][k]] \in ResetRow
  BY DEF AuditTypeOK, AuditInv, AuditTyped, RowsWhole
<1>1. /\ resets[r] = [k \in Fields |-> resets[r][k]]
      /\ resets[r].edits \in Nat /\ ResetTyped(r)
  BY DEF AuditInv, AuditTyped, Request
<1>2. DOMAIN resets[r] \ {"shown"} = {"state", "at", "kept", "doomed", "edits"}
  BY <1>1 DEF Fields
<1>3. [k \in DOMAIN resets[r] \ {"shown"} |-> resets[r][k]] =
        [state |-> resets[r].state, at |-> resets[r].at, kept |-> resets[r].kept,
         doomed |-> resets[r].doomed, edits |-> resets[r].edits]
  BY <1>2
<1>4. QED
  BY <1>1, <1>3 DEF ResetTyped, ResetRow

\* The parts side by side: the one whose scene it is keeps its invariant, the others stay
\* as they were.
DeskInv ==
  /\ TypesOK
  /\ scene \in {"logins", "health", "log", "registration", "reset"}
  /\ scene = "logins" => LimitInv
  /\ scene = "health" => HealthInv
  /\ scene = "log" => LogInv
  /\ scene = "registration" => RegistrationInv
  /\ scene = "reset" => AuditInv /\ AuditTyped

LEMMA InitDesk == DeskInit => DeskInv
<1> SUFFICES ASSUME DeskInit PROVE DeskInv
  OBVIOUS
<1>1. LimitInv /\ HealthInv /\ LogInv /\ RegistrationInv /\ AuditInv /\ AuditTyped
  BY InitLimit, InitHealth, InitLog, InitRegistration, InitAudit, InitTyped DEF DeskInit
<1>2. TypesOK
  BY <1>1, AuditTypes DEF TypesOK, LimitInv, HealthInv, LogInv, RegistrationInv
<1>3. QED
  BY <1>1, <1>2 DEF DeskInv, DeskInit

LEMMA IdleParts ==
  /\ LimitTypeOK /\ UNCHANGED limitVars => LimitTypeOK'
  /\ HealthTypeOK /\ UNCHANGED healthVars => HealthTypeOK'
  /\ LogTypeOK /\ UNCHANGED logVars => LogTypeOK'
  /\ RegistrationTypeOK /\ UNCHANGED registrationVars => RegistrationTypeOK'
  /\ AuditTypeOK /\ UNCHANGED auditVars => AuditTypeOK'
<1>1. LimitTypeOK /\ UNCHANGED limitVars => LimitTypeOK'
  BY DEF LimitTypeOK, limitVars
<1>2. HealthTypeOK /\ UNCHANGED healthVars => HealthTypeOK'
  BY DEF HealthTypeOK, healthVars
<1>3. LogTypeOK /\ UNCHANGED logVars => LogTypeOK'
  BY DEF LogTypeOK, logVars
<1>4. RegistrationTypeOK /\ UNCHANGED registrationVars => RegistrationTypeOK'
  BY DEF RegistrationTypeOK, registrationVars
<1>5. AuditTypeOK /\ UNCHANGED auditVars => AuditTypeOK'
  BY DEF AuditTypeOK, auditVars, auditTables, Standing, Here
<1>6. QED
  BY <1>1, <1>2, <1>3, <1>4, <1>5

LEMMA DeskStep == DeskInv /\ [DeskNext]_deskVars => DeskInv'
<1> SUFFICES ASSUME DeskInv, [DeskNext]_deskVars PROVE DeskInv'
  OBVIOUS
<1>0. TypesOK /\ scene' = scene
  BY DEF DeskInv, DeskNext, deskVars
<1>1. CASE UNCHANGED deskVars
  <2>1. /\ [LimitNext]_<<limitVars, now>> /\ [HealthNext]_<<healthVars, now>>
        /\ [LogNext]_<<logVars, now>> /\ [RegistrationNext]_<<registrationVars, now>>
        /\ [AuditNext]_<<auditVars, now>>
    BY <1>1 DEF deskVars
  <2>2. TypesOK'
    BY <1>0, <1>1, IdleParts DEF TypesOK, deskVars
  <2>3. QED
    BY <1>0, <2>1, <2>2, LimitMoves, HealthStep, LogStep, RegistrationStep, AuditStep, TypedSteps
       DEF DeskInv
<1>2. CASE /\ scene = "logins" /\ LimitNext
           /\ UNCHANGED <<healthVars, logVars, registrationVars, auditVars>>
  <2>1. LimitInv'
    BY <1>2, LimitMoves DEF DeskInv
  <2>2. TypesOK'
    BY <1>0, <1>2, <2>1, IdleParts DEF TypesOK, LimitInv
  <2>3. QED
    BY <1>0, <1>2, <2>1, <2>2 DEF DeskInv
<1>3. CASE /\ scene = "health" /\ HealthNext
           /\ UNCHANGED <<limitVars, logVars, registrationVars, auditVars>>
  <2>1. HealthInv'
    BY <1>3, HealthStep DEF DeskInv
  <2>2. TypesOK'
    BY <1>0, <1>3, <2>1, IdleParts DEF TypesOK, HealthInv
  <2>3. QED
    BY <1>0, <1>3, <2>1, <2>2 DEF DeskInv
<1>4. CASE /\ scene = "log" /\ LogNext
           /\ UNCHANGED <<limitVars, healthVars, registrationVars, auditVars>>
  <2>1. LogInv'
    BY <1>4, LogStep DEF DeskInv
  <2>2. TypesOK'
    BY <1>0, <1>4, <2>1, IdleParts DEF TypesOK, LogInv
  <2>3. QED
    BY <1>0, <1>4, <2>1, <2>2 DEF DeskInv
<1>5. CASE /\ scene = "registration" /\ RegistrationNext
           /\ UNCHANGED <<limitVars, healthVars, logVars, auditVars>>
  <2>1. RegistrationInv'
    BY <1>5, RegistrationStep DEF DeskInv
  <2>2. TypesOK'
    BY <1>0, <1>5, <2>1, IdleParts DEF TypesOK, RegistrationInv
  <2>3. QED
    BY <1>0, <1>5, <2>1, <2>2 DEF DeskInv
<1>6. CASE /\ scene = "reset" /\ AuditNext
           /\ UNCHANGED <<limitVars, healthVars, logVars, registrationVars>>
  <2>1. AuditInv' /\ AuditTyped'
    BY <1>6, AuditStep, TypedSteps DEF DeskInv
  <2>2. AuditTypeOK'
    BY <2>1, AuditTypes, PTL
  <2>3. TypesOK'
    BY <1>0, <1>6, <2>2, IdleParts DEF TypesOK
  <2>4. QED
    BY <1>0, <1>6, <2>1, <2>3 DEF DeskInv
<1>7. QED
  BY <1>1, <1>2, <1>3, <1>4, <1>5, <1>6 DEF DeskNext

\* The tables of the desk keep rows of their own shape, for every value of the constants:
\* each part by itself, and all of them side by side, as the run has them.
THEOREM DeskTypes ==
  /\ LimitSpec => []LimitTypeOK
  /\ HealthSpec => []HealthTypeOK
  /\ LogSpec => []LogTypeOK
  /\ RegistrationSpec => []RegistrationTypeOK
  /\ AuditSpec => []AuditTypeOK
  /\ DeskSpec => []TypesOK
<1>1. LimitSpec => []LimitTypeOK
  <2>1. LimitInv => LimitTypeOK
    BY DEF LimitInv
  <2>2. QED
    BY InitLimit, LimitMoves, <2>1, PTL DEF LimitSpec
<1>2. HealthSpec => []HealthTypeOK
  <2>1. HealthInv => HealthTypeOK
    BY DEF HealthInv
  <2>2. QED
    BY InitHealth, HealthStep, <2>1, PTL DEF HealthSpec
<1>3. LogSpec => []LogTypeOK
  <2>1. LogInv => LogTypeOK
    BY DEF LogInv
  <2>2. QED
    BY InitLog, LogStep, <2>1, PTL DEF LogSpec
<1>4. RegistrationSpec => []RegistrationTypeOK
  <2>1. RegistrationInv => RegistrationTypeOK
    BY DEF RegistrationInv
  <2>2. QED
    BY InitRegistration, RegistrationStep, <2>1, PTL DEF RegistrationSpec
<1>5. AuditSpec => []AuditTypeOK
  <2>1. QED
    BY InitAudit, AuditStep, InitTyped, TypedSteps, AuditTypes, PTL DEF AuditSpec
<1>6. DeskSpec => []TypesOK
  <2>1. DeskInv => TypesOK
    BY DEF DeskInv
  <2>2. QED
    BY InitDesk, DeskStep, <2>1, PTL DEF DeskSpec
<1>7. QED
  BY <1>1, <1>2, <1>3, <1>4, <1>5, <1>6
=============================================================================
