SPECIFICATION FairSpec
CONSTANTS
  Plugins = {"a", "b"}
  Jobs = {"now", "soon", "later", "twice", "always"}
  Reqs = {"get", "post"}
  Controllers = {"old", "new"}
  Kind <- MCKind
  Owner <- MCOwner
  SteamId <- MCSteamId
  Casts <- DelayCasts
  Free = Free
  None = None
  NoJob = NoJob
  NoRequest = NoRequest
  Null = Null
PROPERTIES DelayedRuns
CHECK_DEADLOCK FALSE
