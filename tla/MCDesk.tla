-------------------------------- MODULE MCDesk --------------------------------
(* A small instance of each of the smaller parts. *)
EXTENDS DeskParts

CONSTANTS
  a1, x1, t1, t2, t3, t4,
  p1, p2, r1, r2, r3,
  e1, e2, e3, e4, e5,
  g1, g2, g3, g4, m1, m2, s1, s2, old, fresh, held,
  root, boss1, boss2, in1, in2, pupil, q1, q2, v1, v2, v3

\* The address is locked before the account; two of the four come without one.
MCKeyRank == [k \in {a1, x1} |-> IF k = x1 THEN 1 ELSE 2]
MCTryAccount == [t \in Tries |-> a1]
MCTryAddress == [t \in Tries |-> IF t \in {t3, t4} THEN None ELSE x1]

MCReportBy == [r \in Reports |-> IF r = r3 THEN p2 ELSE p1]
MCReportPart == [r \in Reports |-> IF r = r3 THEN "DETECTOR" ELSE "WRITER"]

MCRank == [e \in LogEvents |->
  CASE e = e1 -> 3 [] e = e2 -> 2 [] e = e3 -> 5 [] e = e4 -> 1 [] e = e5 -> 4]

\* g1 wants the address m1 leaves, g2 and g3 the one it takes, g4 that of m2.
MCRegRequest == [r \in Registrations |->
  CASE r = g1 -> [actor |-> "MANAGER", role |-> "INSTRUCTOR", email |-> old, school |-> None]
    [] r = g2 -> [actor |-> "INSTRUCTOR", role |-> "STUDENT", email |-> fresh, school |-> None]
    [] r = g3 -> [actor |-> "ADMIN", role |-> "INSTRUCTOR", email |-> fresh, school |-> s2]
    [] r = g4 -> [actor |-> "MANAGER", role |-> "INSTRUCTOR", email |-> held, school |-> s1]]
MCMemberRow == [m \in Members |->
  [email |-> IF m = m1 THEN old ELSE held, role |-> IF m = m1 THEN "STUDENT" ELSE "INSTRUCTOR",
   school |-> s1, hours |-> {}]]
MCSchoolHours == [s \in RegSchools |->
  IF s = s1 THEN None ELSE [days |-> {0, 6}, span |-> [from |-> 9, to |-> 9]]]

MCRoleOf == [a \in AuditAccounts |->
  CASE a = root -> "ADMIN" [] a \in {boss1, boss2} -> "MANAGER"
    [] a \in {in1, in2} -> "INSTRUCTOR" [] a = pupil -> "STUDENT"]
\* q2 is a school of the admin; boss2 is not there yet.
MCAuditRows ==
  [accounts |-> [a \in AuditAccounts |->
     CASE a = boss2 -> None [] a \in {root, boss1} -> [school |-> None]
       [] a \in {in1, pupil} -> [school |-> q1] [] a = in2 -> [school |-> q2]],
   owners |-> [s \in AuditSchools |-> IF s = q1 THEN boss1 ELSE root]]
MCOperationOf == [r \in Resets |->
  CASE r = v1 -> "instructors" [] r = v2 -> "managers" [] r = v3 -> "fixture"]
=============================================================================
