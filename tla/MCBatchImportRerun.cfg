SPECIFICATION ImportSpec
CONSTANTS
  s1 = s1
  s2 = s2
  s3 = s3
  u1 = u1
  u2 = u2
  u3 = u3
  p1 = p1
  p2 = p2
  Sessions <- MCSessions
  UploadIds <- MCUploads
  Parts <- MCParts
  MaxOpen = 2
  MaxMishaps = 1
  MaxTries = 2
PROPERTY
  HidesOnlyEmpty
CHECK_DEADLOCK FALSE
