SPECIFICATION SidesSpec
CONSTANTS
  r1 = r1
  r2 = r2
  p1 = p1
  p2 = p2
  k1 = k1
  c1 = c1
  c2 = c2
  c3 = c3
  oA = oA
  oA2 = oA2
  oB = oB
  sA = sA
  sB = sB
  Clients <- MCClients
  Processes <- MCProcesses
  ClockOffset <- MCClockOffset
  MaxSkew = 1
  TTL = 3
  MaxTime = 4
  Slots <- MCSlots
  Callers <- MCCallers
  Writing <- MCWriting
  Sessions <- MCSessions
  SessionOf <- MCSessionOf
  Openers <- MCOpeners
  Casts <- MCCasts
  MaxTries = 2
INVARIANTS
  ExclusivePromise
  PromiseKept
  HolderAnnounced
  WriterWatches
  SlotsExact
  CleanHandOver
  AnswerTruthful
  ClosedLast
PROPERTIES
  ExpiredFreed
  EveryCallAnswered
\* A behaviour of the calls ends when every caller is answered and the adapter is closed.
CHECK_DEADLOCK FALSE
