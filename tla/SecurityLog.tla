----------------------------- MODULE SecurityLog -----------------------------
(***************************************************************************)
(* The list of security events a manager pages through                     *)
(* (security-events/list, listCursor): newest first by time and id, a page *)
(* at a time, from a signed cursor that names the first or the last row of *)
(* the page before. Meanwhile events are recorded, with the time at which  *)
(* their transaction starts and visible from its commit, and the oldest    *)
(* are pruned.                                                             *)
(***************************************************************************)
EXTENDS Desk, Sequences, SequencesExt

CONSTANTS
  LogEvents,
  Rank,             \* the order of their ids
  Hidden,           \* those another viewer alone may see
  PageSize,
  CursorLife,       \* 15 minutes
  Retention         \* 90 days

ASSUME LogAssumption ==
  /\ None \notin LogEvents /\ IsFiniteSet(LogEvents)
  /\ Rank \in [LogEvents -> Nat]
  /\ \A e, f \in LogEvents : Rank[e] = Rank[f] => e = f
  /\ Hidden \subseteq LogEvents
  /\ PageSize \in Nat \ {0} /\ CursorLife \in Nat

VARIABLES
  logRows,    \* security_event_schools: the events by how far they are
  occurred,   \* occurred_at
  walk        \* a manager's way through the list

logVars == <<logRows, occurred, walk>>

Cursor == [direction : {"older", "newer"}, at : Nat, of : LogEvents, expires : Nat]
ASSUME CursorAssumption == None \notin Cursor
NoPage == [items |-> <<>>, next |-> None, previous |-> None]

LogInit ==
  /\ logRows = [e \in LogEvents |-> "new"]
  /\ occurred = [e \in LogEvents |-> 0]
  /\ walk = [state |-> "new", asked |-> None, page |-> NoPage, seen |-> <<>>, due |-> {},
             within |-> {}]

LogTypeOK ==
  /\ logRows \in [LogEvents -> {"new", "open", "there", "pruned"}]
  /\ occurred \in [LogEvents -> Nat]
  /\ walk.state \in {"new", "walking", "ended"}
  /\ walk.asked \in Null(Cursor)
  /\ walk.page.items \in Seq(LogEvents)
  /\ walk.page.next \in Null(Cursor) /\ walk.page.previous \in Null(Cursor)
  /\ walk.seen \in Seq(LogEvents)
  /\ walk.due \subseteq LogEvents /\ walk.within \subseteq LogEvents

\* recordSecurityEvent takes the time, then writes.
LogBegin(e) ==
  /\ logRows[e] = "new"
  /\ logRows' = [logRows EXCEPT ![e] = "open"]
  /\ occurred' = [occurred EXCEPT ![e] = now]
  /\ UNCHANGED <<walk, now>>

LogCommit(e) ==
  /\ logRows[e] = "open"
  /\ logRows' = [logRows EXCEPT ![e] = "there"]
  /\ UNCHANGED <<occurred, walk, now>>

Visible == {e \in LogEvents : logRows[e] = "there" /\ e \notin Hidden}

\* pruneExpiredSecurityEvents, a batch that is large enough.
LogPrune ==
  LET doomed == {e \in LogEvents : logRows[e] = "there" /\ now - occurred[e] > Retention}
  IN /\ doomed # {}
     /\ logRows' = [e \in LogEvents |-> IF e \in doomed THEN "pruned" ELSE logRows[e]]
     /\ walk' = [walk EXCEPT !.due = @ \ doomed]
     /\ UNCHANGED <<occurred, now>>

\* e is older than the row of time t and id f.
Older(e, t, f) == occurred[e] < t \/ (occurred[e] = t /\ Rank[e] < Rank[f])
Newer(e, t, f) == occurred[e] > t \/ (occurred[e] = t /\ Rank[e] > Rank[f])
\* A row has as many rows before it as are newer.
NewestFirst(S) ==
  [i \in 1..Cardinality(S) |->
     CHOOSE e \in S : Cardinality({f \in S : Newer(f, occurred[e], e)}) = i - 1]

\* The rows on the cursor's side of it, in the order the query asks for: away from
\* the cursor.
TimeOnly(c) ==   \* mutant
  IF c = None THEN NewestFirst(Visible)
  ELSE IF c.direction = "older" THEN NewestFirst({e \in Visible : occurred[e] < c.at})
  ELSE Reverse(NewestFirst({e \in Visible : occurred[e] > c.at}))
AlwaysNewest(c) ==   \* mutant
  IF c = None THEN NewestFirst(Visible)
  ELSE IF c.direction = "older" THEN NewestFirst({e \in Visible : Older(e, c.at, c.of)})
  ELSE NewestFirst({e \in Visible : Newer(e, c.at, c.of)})
Found(c) ==
  IF c = None THEN NewestFirst(Visible)
  ELSE IF c.direction = "older" THEN NewestFirst({e \in Visible : Older(e, c.at, c.of)})
  ELSE Reverse(NewestFirst({e \in Visible : Newer(e, c.at, c.of)}))

CursorAt(e, direction) ==
  [direction |-> direction, at |-> occurred[e], of |-> e, expires |-> now + CursorLife]

\* One row more than the page is read, to know whether there are more.
Page(c) ==
  LET found == Found(c)
      overflow == Len(found) > PageSize
      taken == SubSeq(found, 1, IF overflow THEN PageSize ELSE Len(found))
      newer == c # None /\ c.direction = "newer"
      items == IF newer THEN Reverse(taken) ELSE taken
      older(b) == IF b /\ items # <<>> THEN CursorAt(items[Len(items)], "older") ELSE None
      back(b) == IF b /\ items # <<>> THEN CursorAt(items[1], "newer") ELSE None
  IN [items |-> items,
      next |-> older(newer \/ overflow),
      previous |-> back(IF newer THEN overflow ELSE c # None)]

\* The first page. What is in the list now is due before the walk ends.
FirstPage ==
  /\ walk.state = "new"
  /\ walk' = [state |-> "walking", asked |-> None, page |-> Page(None),
              seen |-> Page(None).items, due |-> Visible, within |-> {}]
  /\ UNCHANGED <<logRows, occurred, now>>

Valid(c) == c # None /\ now <= c.expires

\* The next page, further into the past.
NextPage ==
  /\ walk.state = "walking" /\ Valid(walk.page.next)
  /\ walk.asked # None => walk.asked.direction = "older"
  /\ walk' = [walk EXCEPT !.asked = walk.page.next, !.page = Page(walk.page.next),
                          !.seen = @ \o Page(walk.page.next).items]
  /\ UNCHANGED <<logRows, occurred, now>>

\* A page back, from the first row of this one. What lies between them is kept for
\* the property: it is what the query that answers can see.
PreviousPage ==
  LET c == walk.page.previous
  IN /\ walk.state = "walking" /\ Valid(c)
     /\ walk' = [walk EXCEPT !.state = "ended", !.asked = c, !.page = Page(c),
                  !.within = {e \in Visible : Newer(e, c.at, c.of)}]
     /\ UNCHANGED <<logRows, occurred, now>>

LogTick == Later /\ UNCHANGED logVars

LogNext ==
  \/ LogTick \/ LogPrune \/ FirstPage \/ NextPage \/ PreviousPage
  \/ \E e \in LogEvents : LogBegin(e) \/ LogCommit(e)
LogSpec == LogInit /\ now = 0 /\ [][LogNext]_<<logVars, now>>

\* Whatever is recorded or pruned meanwhile, a walk down the list shows every event
\* that was there when it began and has not been pruned, and none twice.
WalkComplete ==
  /\ IsInjective(walk.seen)
  /\ walk.state = "walking" /\ walk.page.next = None => walk.due \subseteq ToSet(walk.seen)

\* A page back ends at the row it was asked from: the rows it shows are those next
\* to it, newest first, and nothing the query can see lies between.
PageBackAdjoins ==
  walk.state = "ended" =>
    LET shown == ToSet(walk.page.items)
    IN /\ shown \subseteq walk.within
       /\ Cardinality(shown) = IF Cardinality(walk.within) > PageSize THEN PageSize
                               ELSE Cardinality(walk.within)
       /\ \A e \in shown, f \in walk.within \ shown : Older(e, occurred[f], f)
       /\ \A i, j \in DOMAIN walk.page.items :
            i < j => Newer(walk.page.items[i], occurred[walk.page.items[j]], walk.page.items[j])

\* The pages fit together in both directions, whatever comes and goes meanwhile.
PagesAdjoin == WalkComplete /\ PageBackAdjoins
=============================================================================
