CONSTANTS
  w1 = w1  w2 = w2  v1 = v1  v2 = v2  account = account  ip = ip  user = user
  None = None
  Writers = {w1, w2}
  Workers = {v1}
  Keys = {account, ip}
  KeyOrder <- Order
  Mixes <- OldMixes
  Reports <- MixedReports
  Latest = 4
  Window = 1
  Threshold <- OneAndTwo
  BatchSize = 2
  Sweeping = TRUE
  SweepBatch = 2
  MaxBatches = 2
  MaxFaults = 0
SPECIFICATION MixedSpec
CHECK_DEADLOCK FALSE
INVARIANTS WritersGoOn
