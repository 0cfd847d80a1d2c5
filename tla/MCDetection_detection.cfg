CONSTANTS
  w1 = w1  w2 = w2  v1 = v1  v2 = v2  account = account  ip = ip  user = user
  None = None
  Writers = {w1, w2}
  Workers = {v1}
  Keys = {account, ip, user}
  KeyOrder <- Order
  Mixes <- AllMixes
  Reports <- MixedReports
  Latest = 6
  Window = 2
  Threshold <- Two
  BatchSize = 1
  Sweeping = TRUE
  SweepBatch = 2
  MaxBatches = 2
  MaxFaults = 1
SPECIFICATION MixedSpec
CHECK_DEADLOCK FALSE
INVARIANTS TypeOK NothingForgotten AlarmsApart BurstsRaiseAlarm WritersGoOn
PROPERTIES QueueDrains
