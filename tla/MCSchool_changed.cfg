CONSTANTS
  m1 = m1  m2 = m2  s1 = s1  s2 = s2  v1 = v1  v2 = v2  k1 = k1  k2 = k2
  i1 = i1  p1 = p1  p2 = p2  b1 = b1  b2 = b2  d1 = d1
  c1 = c1  c2 = c2
  Clients = {c1, c2}
  Schools <- MCSchools
  Managers <- MCManagers
  Vehicles <- MCVehicles
  Courses <- MCCourses
  Instructors <- MCInstructors
  Students <- MCStudents
  Bookings <- MCBookings
  Payments <- MCPayments
  Types = {"B", "C"}
  Admin = Admin
  None = None
  Keep = Keep
  LastTick = 3
  Openings <- MCOpenings
SPECIFICATION Spec
INVARIANT ChangedMeansChanged
CHECK_DEADLOCK FALSE
