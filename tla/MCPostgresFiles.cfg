SPECIFICATION SidesSpec
CONSTANTS
  p1 = p1
  p2 = p2
  s1 = s1
  x1 = x1
  x2 = x2
  j1 = j1
  j2 = j2
  l1 = l1
  l2 = l2
  w1 = w1
  Processes <- MCProcesses
  Sockets <- MCSockets
  Writers <- MCWriters
  ClockOffset <- MCClockOffset
  MaxAge = 1
  MaxRev = 2
  MaxTime = 2
  MaxLosses = 1
  MaxAttaches = 2
  Jobs <- MCJobs
  Lanes <- MCLanes
  Workers <- MCWorkers
  WorkerOf <- MCWorkerOf
  MaxAttempts = 2
  MaxMishaps = 3
INVARIANT
  ReclaimerKeepsFiles
CHECK_DEADLOCK FALSE
