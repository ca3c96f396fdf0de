SPECIFICATION FairSpec
CONSTANTS
  Plugins = {"suicide", "finder"}
  Contents <- MCContents
  BadInfo = {"suicide"}
  Unreadable = Unreadable
  None = None
  MaxVersion = 2
  MaxRefs = 2
INVARIANTS TypeOK CommandsLive
PROPERTIES KeepsAnswering NoUpdateLost UpdateRuns
CHECK_DEADLOCK FALSE
