CONSTANTS
  c1 = c1  c2 = c2  c3 = c3  l1 = l1  l2 = l2  l3 = l3  e1 = e1  e2 = e2
  s1 = s1  s2 = s2  i1 = i1  i2 = i2  v1 = v1  v2 = v2  k1 = k1
  None = None  Keep = Keep
  Clients = {c1, c2}
  Lessons = {l1, l2}
  Events = {e1, e2}
  Students = {s1, s2}
  Instructors = {i1, i2}
  Vehicles = {v1, v2}
  Courses = {k1}
  Minute = 2  Horizon = 12  Moments = {3, 6}
  Hours <- EarlyAndLate
  PracticeMin = 4  PracticeMax = 6  TheoryMin = 2  TheoryMax = 4  FinalMin = 2
  TotalMinutes <- PickerPackage
  SelfBookedWith <- AnyInstructor
  Mixes <- FormMixes
  Requests <- MixedRequests
  MaxRequests = 4
  MaxAttempts = 2
  StartStep = 2  EndStep = 2  SlotLength = 4
SPECIFICATION FairMixedSpec
CHECK_DEADLOCK FALSE
INVARIANTS FreeToTheMinute OffersCanBeSaved SavableLessonsAreOffered PreflightAgreesWithSave
PROPERTIES EveryRequestAnswered
