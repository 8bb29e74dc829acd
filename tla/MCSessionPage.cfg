SPECIFICATION PartsSpec
CONSTANTS
  p1 = p1
  q1 = q1
  q2 = q2
  a1 = a1
  a2 = a2
  b1 = b1
  u1 = u1
  u2 = u2
  u3 = u3
  m1 = m1
  m2 = m2
  w1 = w1
  w2 = w2
  Sheets = 1
  Polls = {p1}
  StaleAfter = 2
  LandBound = 1
  Skew = 1
  MaxBeats = 1
  MaxFaults = 1
  Questions <- MCQuestions
  Replies <- MCReplies
  ReplyTo <- MCReplyTo
  Fitting <- MCFitting
  Tabs = {ta, tb}
  Recorder = ta
  NoTab = none
  LastChunk = 2
  MaxEvents = 2
  Windows <- MCWindows
  Uploads <- MCUploads
  WindowOf <- MCWindowOf
  Merges <- MCMerges
  Wav <- MCWav
  MaxSyncs = 0
  MaxCrashes = 1
  MaxLost = 0
  MaxRuns = 1
  LongOutages = TRUE
INVARIANTS
  EndIsWhole
  AnswerUsed
  AckedKept
  RowHasBlob
  RunReadsAll
  ResultsAdopted
PROPERTIES
  RecordMovesOn
  JobReported
  QuestionsSettle
  Drains
  DoneMergeSettles
\* A take that is over and a turn whose process died do nothing more.
CHECK_DEADLOCK FALSE
