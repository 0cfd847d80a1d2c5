CONSTANTS
  u1 = u1  u2 = u2  s1 = s1  s2 = s2  a1 = a1  a2 = a2
  m1 = m1  m2 = m2  m3 = m3  c1 = c1  c2 = c2  c3 = c3
  None = None
  Users = {u1}
  Clients = {c1, c2, c3}
  Sessions = {}
  Actions = {a1, a2}
  Emails = {m1, m2, m3}
  FirstEmail <- OneEmail
  Mixes <- RepairMixes
  Requests <- MixedRequests
  MaxRequests = 3
  LossyAuth = FALSE
  CarefulRepair = FALSE
SPECIFICATION MixedSpec
SYMMETRY Symmetric
CHECK_DEADLOCK FALSE
INVARIANTS DivergenceIsRecorded
