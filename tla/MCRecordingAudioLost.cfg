SPECIFICATION AudioSpec
CONSTANTS
  u1 = u1
  u2 = u2
  u3 = u3
  m1 = m1
  m2 = m2
  w1 = w1
  w2 = w2
  w3 = w3
  Windows <- TwoWindows
  Uploads <- ThreeUploads
  WindowOf <- Twice2
  Merges <- OneMerge
  Wav <- NoWav
  MaxSyncs = 0
  MaxCrashes = 0
  MaxLost = 1
  MaxRuns = 0
  LongOutages = FALSE
INVARIANT
  AckedKept
