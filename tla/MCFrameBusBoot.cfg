SPECIFICATION BusSpec
CONSTANTS
  p1 = p1
  p2 = p2
  s1 = s1
  s2 = s2
  w1 = w1
  w2 = w2
  Processes <- MCProcesses
  Sockets <- MCSockets
  Writers <- MCWriters
  ClockOffset <- MCClockOffset
  MaxAge = 1
  MaxRev = 2
  MaxTime = 2
  MaxLosses = 0
  MaxAttaches = 2
SYMMETRY Symmetry
INVARIANT
  EveryFrameReaches
