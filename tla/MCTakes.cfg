SPECIFICATION SidesSpec
CONSTANTS
  Tabs = {ta, tb}
  Recorder = ta
  NoTab = none
  LastChunk = 2
  MaxEvents = 3
  u1 = u1
  u2 = u2
  u3 = u3
  m1 = m1
  w1 = w1
  w2 = w2
  r1 = r1
  r2 = r2
  r3 = r3
  p1 = p1
  p2 = p2
  Runs <- MCRuns
  Processes <- MCProcesses
  TTL = 2
  MaxTime = 4
  Windows <- MCWindows
  Uploads <- MCUploads
  WindowOf <- MCWindowOf
  Merges <- MCMerges
  Wav <- MCWav
  MaxSyncs = 1
  MaxCrashes = 1
  MaxLost = 1
  MaxRuns = 0
  LongOutages = TRUE
INVARIANTS
  WindowOnce
  NoForgottenFinalize
  NothingLost
  OneOwner
  FinalizeExact
  OverlapOnlyAfterLapse
  NoGhostHolder
  SlotExact
\* A take that is over, a closed tab and a lease at the end of time do nothing more.
CHECK_DEADLOCK FALSE
