SPECIFICATION AudioFairSpec
CONSTANTS
  u1 = u1
  u2 = u2
  u3 = u3
  m1 = m1
  m2 = m2
  w1 = w1
  w2 = w2
  w3 = w3
  Windows <- TwoWindows
  Uploads <- TwoUploads
  WindowOf <- Each2
  Merges <- OneMerge
  Wav <- NoWav
  MaxSyncs = 1
  MaxCrashes = 0
  MaxLost = 0
  MaxRuns = 0
  LongOutages = FALSE
PROPERTY
  DoneMergeSettles
