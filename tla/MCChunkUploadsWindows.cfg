CONSTANTS
  Tabs = {ta}
  Recorder = ta
  NoTab = none
  LastChunk = 2
  MaxEvents = 3
SPECIFICATION ChunkSpec
INVARIANT FinalizeListsAll
CHECK_DEADLOCK FALSE
