SPECIFICATION SidesSpec
CONSTANTS
  tabA = tabA
  s1 = s1
  s2 = s2
  s3 = s3
  u1 = u1
  u2 = u2
  u3 = u3
  p1 = p1
  p2 = p2
  Sockets <- MCSockets
  Tab = tabA
  MaxRev = 3
  MaxDrops = 2
  MaxFails = 1
  Sessions <- MCSessions
  UploadIds <- MCUploads
  Parts <- MCParts
  MaxOpen = 2
  MaxMishaps = 2
  MaxTries = 2
INVARIANTS
  StaleHasWake
  TakeWhole
  ImportedOnce
PROPERTIES
  QuietConverges
  RerunLands
\* An import nobody runs again and a page that shows all there is do nothing more.
CHECK_DEADLOCK FALSE

