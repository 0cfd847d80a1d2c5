CONSTANTS
  None = None
  LastTick = 2
  a1 = a1  x1 = x1  t1 = t1  t2 = t2  t3 = t3  t4 = t4
  p1 = p1  p2 = p2  r1 = r1  r2 = r2  r3 = r3
  e1 = e1  e2 = e2  e3 = e3  e4 = e4  e5 = e5
  g1 = g1  g2 = g2  g3 = g3  g4 = g4  m1 = m1  m2 = m2  s1 = s1  s2 = s2
  old = old  fresh = fresh  held = held
  root=root boss1=boss1 boss2=boss2 in1=in1 in2=in2 pupil=pupil
  q1=q1 q2=q2 v1=v1 v2=v2 v3=v3
  LoginAccounts = {a1}
  LoginAddresses = {x1}
  AccountLimit = 1
  AddressLimit = 2
  KeyRank <- MCKeyRank
  LoginWindow = 2
  LoginTimeout = 1
  Tries = {t1, t2, t3, t4}
  TryAccount <- MCTryAccount
  TryAddress <- MCTryAddress
  Processes = {p1, p2}
  Askers = {p1}
  Restarting = {p1}
  Reports = {r1, r2, r3}
  ReportBy <- MCReportBy
  ReportPart <- MCReportPart
  Throttle = 1
  FailureWindow = 2
  FreshWindow = 1
  LogEvents = {e1, e2, e3, e4, e5}
  Rank <- MCRank
  Hidden = {e5}
  PageSize = 2
  CursorLife = 1
  Retention = 1
  Registrations = {g1, g2, g3, g4}
  RegRequest <- MCRegRequest
  Members = {m1, m2}
  MemberRow <- MCMemberRow
  Renamed = m1
  NewEmail = fresh
  Emails = {old, fresh, held}
  RegSchools = {s1, s2}
  OwnedSchools = {s1}
  DefaultSchool = s1
  LinkedSchools = {s2}
  SchoolHours <- MCSchoolHours
  AuditAccounts = {root, boss1, boss2, in1, in2, pupil}
  RoleOf <- MCRoleOf
  AuditSchools = {q1, q2}
  Technician = root
  FixtureAccounts = {root, boss1, in1}
  FixtureSchool = q1
  AuditRows <- MCAuditRows
  AuditWork = 1
  Resets = {v1, v2, v3}
  OperationOf <- MCOperationOf
  ConfirmationLife = 1
  EditLimit = 1
SPECIFICATION DeskSpec
INVARIANTS
  TypesOK
  LimitHolds
  FailuresShow
  PagesAdjoin
  RegistrationsHold
  AdminRemains
PROPERTIES
  PreviewHonoured
CHECK_DEADLOCK FALSE
