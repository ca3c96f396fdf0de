SPECIFICATION Spec
CONSTANTS
  Plugins = {"suicide", "finder"}
  Contents <- MCContents
  BadInfo = {"suicide"}
  Unreadable = Unreadable
  None = None
  MaxVersion = 2
  MaxRefs = 2
PROPERTIES ReloadTakesFile
CHECK_DEADLOCK FALSE
